---- MODULE Spec2Model ----
(***************************************************************************)
(* Model of the genie-foundry generation pipeline:                         *)
(*   src/src/lib/orchestrator.ts   runOrchestrator, validateArtifacts      *)
(*   src/src/lib/generator.ts      generateScaffold, validateCode,         *)
(*                                 generateFileWithLLM, generateAppCode    *)
(*   src/src/lib/scaffold.ts       generateAppScaffold                     *)
(*   src/src/app/api/genie/route.ts  safeJsonParse, POST                   *)
(*   src/unnamed/part_003          the verify:generated script             *)
(*                                                                         *)
(* Strings that the code inspects character by character (names, file      *)
(* contents) are sequences of one-character strings.  A path is the        *)
(* sequence of its components below process.cwd().                         *)
(***************************************************************************)
EXTENDS Integers, Sequences, FiniteSets, TLC

\* ------------------------------------------------------------------ bounds

\* longest plan handed to runOrchestrator
MaxPlan == 2
\* most entities in a Specification
MaxEntities == 1
\* files the environment may remove from the disk during a behaviour
MaxRemovals == 1

\* ----------------------------------------------------------- JS strings

\* A recursive operator binds its argument once, "t \in {s}", so that each
\* level of the recursion evaluates it once.

UpperCase == <<"A","B","C","D","E","F","G","H","I","J","K","L","M",
               "N","O","P","Q","R","S","T","U","V","W","X","Y","Z">>

LowerCase == <<"a","b","c","d","e","f","g","h","i","j","k","l","m",
               "n","o","p","q","r","s","t","u","v","w","x","y","z">>

Digits == {"0","1","2","3","4","5","6","7","8","9"}

\* the character class [a-z0-9]
LowerAlnum == {LowerCase[i] : i \in 1..Len(LowerCase)} \cup Digits

\* String.prototype.toLowerCase, one character
ToLowerChar(c) ==
    IF \E i \in 1..Len(UpperCase) : UpperCase[i] = c
    THEN LowerCase[CHOOSE i \in 1..Len(UpperCase) : UpperCase[i] = c]
    ELSE c

\* String.prototype.toLowerCase
ToLowerCase(s) == [i \in 1..Len(s) |-> ToLowerChar(s[i])]

\* .replace(/[^a-z0-9]+/g, "-"): every maximal run of characters outside
\* [a-z0-9] becomes one "-"
RECURSIVE ReplaceNonAlnumRuns(_)
ReplaceNonAlnumRuns(s) ==
    CHOOSE r \in
        {IF t = <<>> THEN <<>>
         ELSE IF Head(t) \in LowerAlnum
              THEN <<Head(t)>> \o ReplaceNonAlnumRuns(Tail(t))
         ELSE IF Len(t) > 1 /\ t[2] \notin LowerAlnum
              THEN ReplaceNonAlnumRuns(Tail(t))
         ELSE <<"-">> \o ReplaceNonAlnumRuns(Tail(t)) : t \in {s}} : TRUE

\* TrimEdgeDash leaving the "-" at the end
TrimLeadingDash(s) == IF s # <<>> /\ Head(s) = "-" THEN Tail(s) ELSE s

\* .replace(/^-|-$/g, ""): one "-" at the start and one "-" at the end go
TrimEdgeDash(s) ==
    LET a == IF s # <<>> /\ Head(s) = "-" THEN Tail(s) ELSE s
    IN  IF a # <<>> /\ a[Len(a)] = "-" THEN SubSeq(a, 1, Len(a) - 1) ELSE a

\* scaffold.ts slugify
slugify(value) == TrimEdgeDash(ReplaceNonAlnumRuns(ToLowerCase(value)))

\* generator.ts safeName
safeName(value) == TrimEdgeDash(ReplaceNonAlnumRuns(ToLowerCase(value)))

\* orchestrator.ts normalizeName
normalizeName(name) == TrimEdgeDash(ReplaceNonAlnumRuns(ToLowerCase(name)))

\* a sequence of characters as one path component
RECURSIVE Str(_)
Str(s) ==
    CHOOSE r \in {IF t = <<>> THEN "" ELSE Head(t) \o Str(Tail(t)) : t \in {s}} : TRUE

\* ---------------------------------------------------------------- paths

\* path.join(p, c): an empty component leaves the path as it is
PathJoin(p, c) == IF c = "" THEN p ELSE Append(p, c)

RECURSIVE PathJoinAll(_, _)
PathJoinAll(p, cs) ==
    CHOOSE r \in
        {IF d = <<>> THEN q ELSE PathJoinAll(PathJoin(q, Head(d)), Tail(d)) :
            q \in {p}, d \in {cs}} : TRUE

\* path.dirname
Dirname(p) == SubSeq(p, 1, Len(p) - 1)

\* the directories fs.mkdir(p, {recursive: true}) makes sure of
Ancestors(p) == {SubSeq(p, 1, n) : n \in 1..Len(p)}

Range(s) == {s[i] : i \in 1..Len(s)}

\* ---------------------------------------------------------- file system

\* one awaited file-system call of a generator, or a statement that throws
Mkdir(p) == [op |-> "mkdir", path |-> p, ret |-> FALSE]
WriteFile(p, ret) == [op |-> "write", path |-> p, ret |-> ret]
Throw == [op |-> "throw", path |-> <<>>, ret |-> FALSE]

\* fs.mkdir(p, {recursive: true}) on the disk [dirs, files]
FsMkdir(fs, p) ==
    IF Ancestors(p) \cap fs.files # {}
    THEN [dirs |-> fs.dirs, files |-> fs.files, err |-> "ENOTDIR"]
    ELSE [dirs |-> fs.dirs \cup Ancestors(p), files |-> fs.files, err |-> ""]

\* fs.writeFile(p, data): the parent directory must exist
FsWriteFile(fs, p) ==
    IF Dirname(p) # <<>> /\ Dirname(p) \notin fs.dirs
    THEN [dirs |-> fs.dirs, files |-> fs.files, err |-> "ENOENT"]
    ELSE IF p \in fs.dirs
    THEN [dirs |-> fs.dirs, files |-> fs.files, err |-> "EISDIR"]
    ELSE [dirs |-> fs.dirs, files |-> fs.files \cup {p}, err |-> ""]

ExecOp(fs, o) ==
    CASE o.op = "mkdir" -> FsMkdir(fs, o.path)
      [] o.op = "write" -> FsWriteFile(fs, o.path)
      [] OTHER -> [dirs |-> fs.dirs, files |-> fs.files, err |-> "TypeError"]

\* the awaited calls of ops one after the other, stopping at the first that
\* rejects; the call number fault (0: none) rejects with an I/O error
RECURSIVE RunOps(_, _, _, _)
RunOps(ops, fs, fault, n) ==
    IF n > Len(ops) THEN [dirs |-> fs.dirs, files |-> fs.files, err |-> ""]
    ELSE IF n = fault THEN [dirs |-> fs.dirs, files |-> fs.files, err |-> "EIO"]
    ELSE CHOOSE res \in {IF r.err # "" THEN r ELSE RunOps(ops, r, fault, n + 1) :
                            r \in {ExecOp(fs, ops[n])}} : TRUE

\* the paths a generator pushes to the list it returns, in order
Returned(ops) == SelectSeq(ops, LAMBDA o : o.ret)

ReturnedPaths(ops) == [i \in 1..Len(Returned(ops)) |-> Returned(ops)[i].path]

\* concatenation of a sequence of sequences
RECURSIVE Flatten(_)
Flatten(ss) == IF ss = <<>> THEN <<>> ELSE Head(ss) \o Flatten(Tail(ss))

\* ------------------------------------------------- generateScaffold

SpecKeys == {"entities", "workflows", "integrations", "pages"}

\* a statement that dereferences spec[key] throws when the key is absent
Needs(spec, keys) == IF keys \subseteq spec.has THEN <<>> ELSE <<Throw>>

generateScaffoldOps(workspace, spec) ==
    LET appDir == PathJoin(workspace, "app")
        backendDir == PathJoin(workspace, "backend")
        infraDir == PathJoin(workspace, "infra")
    IN  <<Mkdir(appDir), Mkdir(backendDir), Mkdir(infraDir)>>
        \o Needs(spec, {"entities"})
        \o <<WriteFile(PathJoin(backendDir, "data-schema.json"), TRUE)>>
        \o Needs(spec, {"pages", "entities"})
        \o <<WriteFile(PathJoin(appDir, "ui-map.md"), TRUE)>>
        \o Needs(spec, {"integrations"})
        \o <<WriteFile(PathJoin(infraDir, "integrations.json"), TRUE)>>
        \o Needs(spec, {"workflows"})
        \o <<WriteFile(PathJoin(backendDir, "workflows.json"), TRUE)>>
        \o <<WriteFile(PathJoin(workspace, "meta.json"), TRUE)>>

\* ---------------------------------------------- generateAppScaffold

\* the two pages used when the Specification has none
DefaultRoutes == << <<"D","a","s","h","b","o","a","r","d">>, <<"I","t","e","m","s">> >>

\* Routes without the default pages
RoutesAsGiven(spec) == spec.pages

Routes(spec) == IF Len(spec.pages) # 0 THEN spec.pages ELSE DefaultRoutes

\* the fixed template files, below app/template
FixedTemplateFiles ==
    << <<"app", "dashboard", "page.tsx">>,
       <<"app", "records", "page.tsx">>,
       <<"app", "entities", "page.tsx">>,
       <<"app", "workflows", "page.tsx">>,
       <<"app", "integrations", "page.tsx">>,
       <<"app", "auth", "page.tsx">>,
       <<"app", "settings", "page.tsx">>,
       <<"app", "api", "records", "route.ts">>,
       <<"app", "api", "records", "[id]", "route.ts">>,
       <<"app", "api", "entities", "route.ts">>,
       <<"app", "api", "workflows", "route.ts">>,
       <<"app", "api", "integrations", "route.ts">>,
       <<"app", "layout.tsx">>,
       <<"globals.css">>,
       <<"README.md">> >>

\* the template directories created before the fixed files are written
FixedTemplateDirs ==
    << <<"app">>,
       <<"app", "dashboard">>,
       <<"app", "records">>,
       <<"app", "entities">>,
       <<"app", "workflows">>,
       <<"app", "integrations">>,
       <<"app", "auth">>,
       <<"app", "settings">>,
       <<"app", "api">>,
       <<"app", "api", "records">>,
       <<"app", "api", "records", "[id]">>,
       <<"app", "api", "entities">> >>

\* EntityOps without the page of the entity
EntityOpsWithoutPage(templateDir, entity) ==
    LET slug == Str(slugify(entity))
        entityDir == PathJoinAll(templateDir, <<"app", "api", slug>>)
        entityIdDir == PathJoin(entityDir, "[id]")
    IN  <<Mkdir(entityDir), Mkdir(entityIdDir),
          WriteFile(PathJoin(entityDir, "route.ts"), TRUE),
          WriteFile(PathJoin(entityIdDir, "route.ts"), TRUE)>>

\* the per-entity loop body
EntityOps(templateDir, entity) ==
    LET slug == Str(slugify(entity))
        entityDir == PathJoinAll(templateDir, <<"app", "api", slug>>)
        entityIdDir == PathJoin(entityDir, "[id]")
        entityPageDir == PathJoinAll(templateDir, <<"app", "entities", slug>>)
    IN  <<Mkdir(entityDir), Mkdir(entityIdDir),
          WriteFile(PathJoin(entityDir, "route.ts"), TRUE),
          WriteFile(PathJoin(entityIdDir, "route.ts"), TRUE),
          Mkdir(entityPageDir),
          WriteFile(PathJoin(entityPageDir, "page.tsx"), TRUE)>>

generateAppScaffoldOps(workspace, spec) ==
    LET appRoot == PathJoin(workspace, "app")
        pageDir == PathJoin(appRoot, "pages")
        apiDir == PathJoin(workspace, "backend")
        templateDir == PathJoin(appRoot, "template")
        routes == Routes(spec)
    IN  <<Mkdir(appRoot)>>
        \o Needs(spec, {"pages", "entities"})
        \o <<WriteFile(PathJoin(appRoot, "README.md"), FALSE),
             WriteFile(PathJoin(appRoot, "spec.json"), TRUE),
             WriteFile(PathJoin(appRoot, "ui-map.md"), TRUE),
             Mkdir(pageDir)>>
        \o [i \in 1..Len(routes) |->
              WriteFile(PathJoin(pageDir, Str(slugify(routes[i])) \o ".md"), TRUE)]
        \o <<Mkdir(apiDir)>>
        \o [i \in 1..Len(spec.entities) |->
              WriteFile(PathJoin(apiDir, Str(slugify(spec.entities[i])) \o ".schema.json"), TRUE)]
        \o [i \in 1..Len(FixedTemplateDirs) |->
              Mkdir(PathJoinAll(templateDir, FixedTemplateDirs[i]))]
        \o [i \in 1..Len(FixedTemplateFiles) |->
              WriteFile(PathJoinAll(templateDir, FixedTemplateFiles[i]), TRUE)]
        \o Flatten([i \in 1..Len(spec.entities) |->
                      EntityOps(templateDir, spec.entities[i])])

\* ------------------------------------------- verify:generated script

\* the files the script expects below the workspace it picks
VerifyExpected ==
    { <<"manifest.json">>,
      <<"app-spec.json">>,
      <<"app", "template", "app", "dashboard", "page.tsx">>,
      <<"app", "template", "app", "records", "page.tsx">>,
      <<"app", "template", "app", "entities", "page.tsx">>,
      <<"app", "template", "app", "workflows", "page.tsx">>,
      <<"app", "template", "app", "integrations", "page.tsx">>,
      <<"app", "template", "app", "auth", "page.tsx">>,
      <<"app", "template", "app", "settings", "page.tsx">>,
      <<"app", "template", "app", "api", "records", "route.ts">>,
      <<"app", "template", "app", "api", "records", "[id]", "route.ts">>,
      <<"app", "template", "app", "api", "entities", "route.ts">>,
      <<"app", "template", "app", "api", "workflows", "route.ts">>,
      <<"app", "template", "app", "api", "integrations", "route.ts">> }

\* the characters of workspace names in UTF-16 code unit order, the order
\* of Array.prototype.sort without a comparator
CodeUnitOrder == <<"-", "0","1","2","3","4","5","6","7","8","9">> \o LowerCase

CodeUnit(c) == CHOOSE i \in 1..Len(CodeUnitOrder) : CodeUnitOrder[i] = c

RECURSIVE SortsBefore(_, _)
SortsBefore(s, t) ==
    IF s = <<>> THEN t # <<>>
    ELSE IF t = <<>> THEN FALSE
    ELSE IF Head(s) = Head(t) THEN SortsBefore(Tail(s), Tail(t))
    ELSE CodeUnit(Head(s)) < CodeUnit(Head(t))

\* --------------------------------------------------------- validateCode

\* JSON.parse(content) succeeds: a JSON value from the first to the last
\* character.  ValueEnd(s, i) is the position after the value that starts
\* at i, 0 when none does
RECURSIVE StringEnd(_, _)
StringEnd(s, i) ==
    IF i > Len(s) THEN 0
    ELSE IF s[i] = "\"" THEN i + 1
    ELSE IF s[i] = "\\" THEN (IF i + 1 > Len(s) THEN 0 ELSE StringEnd(s, i + 2))
    ELSE StringEnd(s, i + 1)

RECURSIVE ValueEnd(_, _)
ValueEnd(s, i) ==
    IF i > Len(s) THEN 0
    ELSE IF s[i] \in Digits \ {"0"} THEN i + 1
    ELSE IF s[i] = "\"" THEN StringEnd(s, i + 1)
    ELSE IF s[i] = "{" THEN (IF i < Len(s) /\ s[i + 1] = "}" THEN i + 2 ELSE 0)
    ELSE IF s[i] = "[" THEN
        IF i < Len(s) /\ s[i + 1] = "]" THEN i + 2
        ELSE LET e == ValueEnd(s, i + 1)
             IN  IF e # 0 /\ e <= Len(s) /\ s[e] = "]" THEN e + 1 ELSE 0
    ELSE 0

JsonValid(s) == ValueEnd(s, 1) = Len(s) + 1

\* Pairs with the closing brackets of ( and [ exchanged
PairsCrossed == [b \in {"(", "{", "["} |-> CASE b = "(" -> "]" [] b = "{" -> "}" [] OTHER -> ")"]

\* the closing bracket of an opening one
Pairs == [b \in {"(", "{", "["} |-> CASE b = "(" -> ")" [] b = "{" -> "}" [] OTHER -> "]"]

\* the backtick character, which a string of this module cannot hold
Backtick == "BACKTICK"

\* Quotes with the double quote alone
QuotesDoubleOnly == {"\""}

Quotes == {"\"", "'", Backtick}

\* the character loop of validateCode from position i on; "" stands for null
RECURSIVE ScanBrackets(_, _, _, _, _)
ScanBrackets(content, i, stack, inString, escape) ==
    IF i > Len(content)
    THEN IF Len(stack) > 0 THEN "Unbalanced brackets detected" ELSE ""
    ELSE LET char == content[i] IN
         IF escape THEN ScanBrackets(content, i + 1, stack, inString, FALSE)
         ELSE IF char = "\\" THEN ScanBrackets(content, i + 1, stack, inString, TRUE)
         ELSE IF inString # "" THEN
              ScanBrackets(content, i + 1, stack,
                           IF char = inString THEN "" ELSE inString, FALSE)
         ELSE IF char \in Quotes THEN ScanBrackets(content, i + 1, stack, char, FALSE)
         ELSE IF char \in DOMAIN Pairs THEN
              ScanBrackets(content, i + 1, Append(stack, Pairs[char]), "", FALSE)
         ELSE IF char \in {Pairs[b] : b \in DOMAIN Pairs} THEN
              IF stack # <<>> /\ stack[Len(stack)] = char
              THEN ScanBrackets(content, i + 1, SubSeq(stack, 1, Len(stack) - 1), "", FALSE)
              ELSE "Mismatched token: expected "
                   \o (IF stack = <<>> THEN "none" ELSE stack[Len(stack)])
                   \o " but found " \o char
         ELSE ScanBrackets(content, i + 1, stack, "", FALSE)

\* validateCode(content, ext): the failure message, "" for null
validateCode(content, ext) ==
    IF ext = ".json"
    THEN IF JsonValid(content) THEN "" ELSE "SyntaxError"
    ELSE ScanBrackets(content, 1, <<>>, "", FALSE)

\* ------------------------------------------------- getCodegenTargets

\* the fixed targets, by path below the output root
FixedTargets ==
    << <<"app", "layout.tsx">>,
       <<"app", "page.tsx">>,
       <<"app", "dashboard", "page.tsx">>,
       <<"app", "records", "page.tsx">>,
       <<"app", "entities", "page.tsx">>,
       <<"app", "workflows", "page.tsx">>,
       <<"app", "integrations", "page.tsx">>,
       <<"app", "auth", "page.tsx">>,
       <<"app", "settings", "page.tsx">>,
       <<"app", "api", "entities", "route.ts">>,
       <<"app", "api", "workflows", "route.ts">>,
       <<"app", "api", "integrations", "route.ts">> >>

EntityTargets(entity) ==
    LET slug == Str(safeName(entity))
    IN  << PathJoinAll(<<"app", "api">>, <<slug, "route.ts">>),
           PathJoinAll(<<"app", "api">>, <<slug, "[id]", "route.ts">>),
           PathJoinAll(<<"app", "entities">>, <<slug, "page.tsx">>) >>

getCodegenTargets(spec) ==
    FixedTargets
    \o Flatten([i \in 1..Len(spec.entities) |-> EntityTargets(spec.entities[i])])

\* path.extname of a target path
Extname(p) ==
    CASE p[Len(p)] \in {"layout.tsx", "page.tsx"} -> ".tsx"
      [] p[Len(p)] = "route.ts" -> ".ts"
      [] p[Len(p)] = "config.json" -> ".json"
      [] OTHER -> ""

\* ------------------------------------------------------------- inputs

\* sequences over S of length at most n
BoundedSeq(S, n) == UNION {[1..m -> S] : m \in 0..n}

\* invocations of runOrchestrator
Callers == {"c1"}

\* ids of Build rows
BuildIds == { <<"b","1">>, <<"b","2">> }

\* build summaries: one with a non-empty slug, one whose slug is empty, and
\* the empty one
Summaries == { <<"H","R"," ","A","p","p">>, <<"!","?">>, <<>> }

StepNames == {"a", "b"}

Plans == BoundedSeq(StepNames, MaxPlan)

EntityNames == { <<"I","t","e","m">> }

EntityLists == BoundedSeq(EntityNames, MaxEntities)

PageLists == { <<>>, << <<"H","o","m","e">> >> }

\* the Specification part of a GenieResult: the keys present, the entity
\* names and the page names
WellFormedSpecs ==
    [has : {SpecKeys}, entities : EntityLists, pages : PageLists]

\* the names a workspace directory can have
WorkspaceNames == {normalizeName(s) : s \in Summaries} \cup BuildIds

Generated == <<"generated">>

\* a workspace left by an earlier generation that has all template
\* directories, those of the workflows and integrations API routes included
PreparedDirs(name) ==
    LET api == PathJoinAll(Generated, <<Str(name), "app", "template", "app", "api">>)
    IN  Ancestors(PathJoin(api, "workflows")) \cup Ancestors(PathJoin(api, "integrations"))

\* the disk at the start: empty, one prepared workspace, or two
InitialDirs ==
    { {},
      PreparedDirs(<<"h","r","-","a","p","p">>),
      PreparedDirs(<<"h","r","-","a","p","p">>) \cup PreparedDirs(<<"b","1">>) }

\* ---------------------------------------------------------------- state

VARIABLES
    buildRun,   \* BuildRun rows with their BuildStep rows; the row number is the id
    artifact,   \* Artifact rows, in insertion order
    dirs,       \* directories on disk
    files,      \* files on disk
    call,       \* the invocations of runOrchestrator: arguments, locals, position
    removals,   \* files removed by the environment so far
    gen,        \* the invocation of the Codegen Engine: arguments, locals, position
    post,       \* the genie route's POST request: locals, position, response
    fnCall      \* the call of a function taken alone: arguments, position, result

vars == <<buildRun, artifact, dirs, files, call, removals, gen, post, fnCall>>

NoError == [code |-> "", at |-> ""]

NoOutput == [buildId |-> "", runId |-> 0, manifestPath |-> <<>>]

EmptySpec == [has |-> SpecKeys, entities |-> <<>>, pages |-> <<>>]

IdleCall ==
    [pc |-> "idle", buildId |-> "", summary |-> <<>>, plan |-> <<>>,
     spec |-> EmptySpec, runId |-> 0, workspace |-> <<>>,
     manifestPath |-> <<>>, specPath |-> <<>>,
     generatedArtifacts |-> <<>>, appArtifacts |-> <<>>,
     error |-> NoError, thrown |-> NoError, output |-> NoOutput]

NoCall == [pc |-> "idle"]

IdlePost ==
    [pc |-> "idle", problem |-> <<>>, summary |-> <<>>, plan |-> <<>>,
     planText |-> <<>>, specText |-> <<>>, spec |-> EmptySpec,
     buildId |-> <<>>, status |-> 0, body |-> ""]

IdleGen ==
    [pc |-> "idle", spec |-> EmptySpec, outputRoot |-> <<>>, targets |-> <<>>,
     i |-> 0, attempt |-> 0, errorMessage |-> "", response |-> <<>>,
     content |-> <<>>, calls |-> <<>>, writes |-> <<>>, artifacts |-> <<>>,
     thrown |-> NoError]

Init ==
    /\ buildRun = <<>>
    /\ artifact = <<>>
    /\ dirs \in InitialDirs
    /\ files = {}
    /\ call = [c \in Callers |-> IdleCall]
    /\ removals = 0
    /\ gen = IdleGen
    /\ post = IdlePost
    /\ fnCall = NoCall

Disk == [dirs |-> dirs, files |-> files]

\* an awaited call inside the try block rejects: control moves to the catch
\* clause with the error
Reject(c, code) ==
    call' = [call EXCEPT ![c].pc = "catch",
                         ![c].error = [code |-> code, at |-> call[c].pc]]

Goto(c, pc) == call' = [call EXCEPT ![c].pc = pc]

\* prisma.artifact.create / createMany
ArtifactRows(runId, type, paths) ==
    [i \in 1..Len(paths) |-> [runId |-> runId, type |-> type, path |-> paths[i]]]

\* the script's verdict on a disk: the workspace whose name sorts last must
\* hold every expected file
RunDirs(d) == {p \in d : Len(p) = 2 /\ p[1] = "generated"}

NameChars(name) == CHOOSE n \in WorkspaceNames : Str(n) = name

Latest(d) ==
    CHOOSE p \in RunDirs(d) :
        \A q \in RunDirs(d) : q = p \/ SortsBefore(NameChars(q[2]), NameChars(p[2]))

VerifyPasses(d, f) ==
    /\ Generated \in d
    /\ RunDirs(d) # {}
    /\ \A rel \in VerifyExpected : Latest(d) \o rel \in d \cup f

\* ---------------------------------------------------- runOrchestrator

\* NewRun creating the steps in reverse plan order
NewRunReversed(buildId, plan) ==
    [buildId |-> buildId,
     status |-> "running",
     steps |-> [i \in 1..Len(plan) |->
                  [name |-> plan[Len(plan) + 1 - i], status |-> "pending"]]]

\* the row prisma.buildRun.create inserts, with its nested steps
NewRun(buildId, plan) ==
    [buildId |-> buildId,
     status |-> "running",
     steps |-> [i \in 1..Len(plan) |-> [name |-> plan[i], status |-> "pending"]]]

\* WorkspaceName without the build id
WorkspaceNameOfSlugOnly(summary, buildId) == Str(normalizeName(summary))

\* normalizeName(result.summary) || buildId
WorkspaceName(summary, buildId) ==
    IF normalizeName(summary) # <<>> THEN Str(normalizeName(summary))
    ELSE Str(buildId)

\* prisma.buildRun.create, then the workspace path
CreateRun(c, buildId, summary, plan, spec) ==
    /\ call[c].pc = "idle"
    /\ buildRun' = Append(buildRun, NewRun(buildId, plan))
    /\ call' = [call EXCEPT ![c] =
          [IdleCall EXCEPT
             !.pc = "mkdir", !.buildId = buildId, !.summary = summary,
             !.plan = plan, !.spec = spec, !.runId = Len(buildRun) + 1,
             !.workspace = PathJoin(Generated, WorkspaceName(summary, buildId))]]
    /\ UNCHANGED <<artifact, dirs, files, removals, gen, post, fnCall>>

\* where an I/O fault is injected into a run of awaited calls: nowhere, at
\* the first call or at the last
FaultPoints(ops) == {0, 1, Len(ops)}

WorkspaceOps(ws) ==
    <<Mkdir(ws), Mkdir(PathJoin(ws, "app")),
      Mkdir(PathJoin(ws, "backend")), Mkdir(PathJoin(ws, "infra"))>>

\* the four fs.mkdir calls that open the try block
MkdirWorkspace(c) ==
    /\ call[c].pc = "mkdir"
    /\ \E ops \in {WorkspaceOps(call[c].workspace)} :
       \E fault \in FaultPoints(ops) :
       \E r \in {RunOps(ops, Disk, fault, 1)} :
           /\ dirs' = r.dirs
           /\ files' = r.files
           /\ IF r.err = "" THEN Goto(c, "writeManifest") ELSE Reject(c, r.err)
    /\ UNCHANGED <<buildRun, artifact, removals, gen, post, fnCall>>

\* one awaited fs.writeFile of the orchestrator
WriteStep(c, at, path, next) ==
    /\ call[c].pc = at
    /\ LET r == FsWriteFile(Disk, path)
       IN  /\ files' = r.files
           /\ IF r.err = "" THEN Goto(c, next) ELSE Reject(c, r.err)
    /\ UNCHANGED <<buildRun, artifact, dirs, removals, gen, post, fnCall>>

\* one awaited prisma.artifact.create(Many) of the orchestrator
RecordStep(c, at, rows, next) ==
    /\ call[c].pc = at
    /\ artifact' = artifact \o rows
    /\ Goto(c, next)
    /\ UNCHANGED <<buildRun, dirs, files, removals, gen, post, fnCall>>

WriteManifest(c) ==
    /\ call[c].pc = "writeManifest"
    /\ LET manifestPath == PathJoin(call[c].workspace, "manifest.json")
           r == FsWriteFile(Disk, manifestPath)
       IN  /\ files' = r.files
           /\ IF r.err = ""
              THEN call' = [call EXCEPT ![c].pc = "recordManifest",
                                        ![c].manifestPath = manifestPath]
              ELSE Reject(c, r.err)
    /\ UNCHANGED <<buildRun, artifact, dirs, removals, gen, post, fnCall>>

RecordManifest(c) ==
    RecordStep(c, "recordManifest",
               ArtifactRows(call[c].runId, "manifest", <<call[c].manifestPath>>),
               "writeSpec")

WriteSpec(c) ==
    /\ call[c].pc = "writeSpec"
    /\ LET specPath == PathJoin(call[c].workspace, "app-spec.json")
           r == FsWriteFile(Disk, specPath)
       IN  /\ files' = r.files
           /\ IF r.err = ""
              THEN call' = [call EXCEPT ![c].pc = "recordSpecReadme",
                                        ![c].specPath = specPath]
              ELSE Reject(c, r.err)
    /\ UNCHANGED <<buildRun, artifact, dirs, removals, gen, post, fnCall>>

\* the spec and readme rows are inserted before README.md is written
RecordSpecReadme(c) ==
    RecordStep(c, "recordSpecReadme",
               ArtifactRows(call[c].runId, "spec", <<call[c].specPath>>)
               \o ArtifactRows(call[c].runId, "readme",
                               <<PathJoin(call[c].workspace, "README.md")>>),
               "writeReadme")

WriteReadme(c) ==
    WriteStep(c, "writeReadme", PathJoin(call[c].workspace, "README.md"),
              "generateScaffold")

\* await generateScaffold(workspace, spec)
GenerateScaffold(c) ==
    /\ call[c].pc = "generateScaffold"
    /\ \E ops \in {generateScaffoldOps(call[c].workspace, call[c].spec)} :
       \E fault \in FaultPoints(ops) :
       \E r \in {RunOps(ops, Disk, fault, 1)} :
           /\ dirs' = r.dirs
           /\ files' = r.files
           /\ IF r.err = ""
              THEN call' = [call EXCEPT ![c].pc = "generateAppScaffold",
                                        ![c].generatedArtifacts = ReturnedPaths(ops)]
              ELSE Reject(c, r.err)
    /\ UNCHANGED <<buildRun, artifact, removals, gen, post, fnCall>>

\* await generateAppScaffold(workspace, spec)
GenerateAppScaffold(c) ==
    /\ call[c].pc = "generateAppScaffold"
    /\ \E ops \in {generateAppScaffoldOps(call[c].workspace, call[c].spec)} :
       \E fault \in FaultPoints(ops) :
       \E r \in {RunOps(ops, Disk, fault, 1)} :
           /\ dirs' = r.dirs
           /\ files' = r.files
           /\ IF r.err = ""
              THEN call' = [call EXCEPT ![c].pc = "recordGenerated",
                                        ![c].appArtifacts = ReturnedPaths(ops)]
              ELSE Reject(c, r.err)
    /\ UNCHANGED <<buildRun, artifact, removals, gen, post, fnCall>>

RecordGenerated(c) ==
    RecordStep(c, "recordGenerated",
               ArtifactRows(call[c].runId, "generated", call[c].generatedArtifacts),
               "recordApp")

RecordApp(c) ==
    RecordStep(c, "recordApp",
               ArtifactRows(call[c].runId, "app", call[c].appArtifacts),
               "validateArtifacts")

\* the paths handed to validateArtifacts
ValidatedPaths(c) ==
    <<call[c].manifestPath, call[c].specPath>>
    \o call[c].generatedArtifacts \o call[c].appArtifacts

\* validateArtifacts: fs.stat of every path; the failures are collected
Missing(paths, d, f) == SelectSeq(paths, LAMBDA q : q \notin d \cup f)

ValidateArtifacts(c) ==
    /\ call[c].pc = "validateArtifacts"
    /\ IF Missing(ValidatedPaths(c), dirs, files) = <<>>
       THEN Goto(c, "verify")
       ELSE Reject(c, "MissingArtifacts")
    /\ UNCHANGED <<buildRun, artifact, dirs, files, removals, gen, post, fnCall>>

\* execFile("npm", ["run", "verify:generated"]) rejects on a non-zero exit
Verify(c) ==
    /\ call[c].pc = "verify"
    /\ IF VerifyPasses(dirs, files)
       THEN Goto(c, "markReady")
       ELSE Reject(c, "VerifyFailed")
    /\ UNCHANGED <<buildRun, artifact, dirs, files, removals, gen, post, fnCall>>

\* UpdateRun without the nested updateMany: the steps keep their status
UpdateRunLeavesSteps(runId, status, stepStatus) ==
    [buildRun EXCEPT ![runId] =
        [buildId |-> @.buildId, status |-> status, steps |-> @.steps]]

\* UpdateRun with a nested create in place of updateMany: a step is added
UpdateRunCreatesStep(runId, status, stepStatus) ==
    [buildRun EXCEPT ![runId] =
        [buildId |-> @.buildId,
         status |-> status,
         steps |-> Append(@.steps, [name |-> status, status |-> stepStatus])]]

\* prisma.buildRun.update with the nested steps.updateMany
UpdateRun(runId, status, stepStatus) ==
    [buildRun EXCEPT ![runId] =
        [buildId |-> @.buildId,
         status |-> status,
         steps |-> [i \in 1..Len(@.steps) |->
                       [name |-> @.steps[i].name, status |-> stepStatus]]]]

MarkReady(c) ==
    /\ call[c].pc = "markReady"
    /\ buildRun' = UpdateRun(call[c].runId, "ready", "completed")
    /\ Goto(c, "return")
    /\ UNCHANGED <<artifact, dirs, files, removals, gen, post, fnCall>>

\* Catch throwing a new error in place of the one it caught
CatchWraps(c) ==
    /\ call[c].pc = "catch"
    /\ buildRun' = UpdateRun(call[c].runId, "failed", "failed")
    /\ call' = [call EXCEPT ![c].pc = "rejected",
                            ![c].thrown = [code |-> "Error", at |-> "catch"]]
    /\ UNCHANGED <<artifact, dirs, files, removals, gen, post, fnCall>>

\* the catch clause: mark the run failed, rethrow
Catch(c) ==
    /\ call[c].pc = "catch"
    /\ buildRun' = UpdateRun(call[c].runId, "failed", "failed")
    /\ call' = [call EXCEPT ![c].pc = "rejected", ![c].thrown = call[c].error]
    /\ UNCHANGED <<artifact, dirs, files, removals, gen, post, fnCall>>

\* Return with the return statement moved into the try block: the throw is
\* caught by the catch clause
ReturnInsideTry(c) ==
    /\ call[c].pc = "return"
    /\ Reject(c, "ReferenceError")
    /\ UNCHANGED <<buildRun, artifact, dirs, files, removals, gen, post, fnCall>>

\* the return statement after the try statement names manifestPath, a const
\* of the try block, which is not in scope there: evaluating it throws
Return(c) ==
    /\ call[c].pc = "return"
    /\ call' = [call EXCEPT ![c].pc = "rejected",
                            ![c].thrown = [code |-> "ReferenceError", at |-> "return"]]
    /\ UNCHANGED <<buildRun, artifact, dirs, files, removals, gen, post, fnCall>>

\* an awaited write or insert of the try block rejects (disk or store fault)
FaultSteps ==
    {"writeManifest", "recordManifest", "writeSpec", "recordSpecReadme",
     "writeReadme", "recordGenerated", "recordApp"}

AwaitRejects(c) ==
    /\ call[c].pc \in FaultSteps
    /\ Reject(c, "EIO")
    /\ UNCHANGED <<buildRun, artifact, dirs, files, removals, gen, post, fnCall>>

\* the environment removes a file while no invocation is between its
\* existence check and its status update
Removable == {"manifest.json", "README.md"}

ExternalRemove(p) ==
    /\ removals < MaxRemovals
    /\ p \in files
    /\ p[Len(p)] \in Removable /\ Len(p) = 3
    /\ \A c \in Callers : call[c].pc \notin {"verify", "markReady"}
    /\ files' = files \ {p}
    /\ removals' = removals + 1
    /\ UNCHANGED <<buildRun, artifact, dirs, call, gen, post, fnCall>>

Next ==
    \/ \E c \in Callers, b \in BuildIds, s \in Summaries, pl \in Plans,
          sp \in WellFormedSpecs : CreateRun(c, b, s, pl, sp)
    \/ \E c \in Callers : MkdirWorkspace(c)
    \/ \E c \in Callers : WriteManifest(c)
    \/ \E c \in Callers : RecordManifest(c)
    \/ \E c \in Callers : WriteSpec(c)
    \/ \E c \in Callers : RecordSpecReadme(c)
    \/ \E c \in Callers : WriteReadme(c)
    \/ \E c \in Callers : GenerateScaffold(c)
    \/ \E c \in Callers : GenerateAppScaffold(c)
    \/ \E c \in Callers : RecordGenerated(c)
    \/ \E c \in Callers : RecordApp(c)
    \/ \E c \in Callers : ValidateArtifacts(c)
    \/ \E c \in Callers : Verify(c)
    \/ \E c \in Callers : MarkReady(c)
    \/ \E c \in Callers : Catch(c)
    \/ \E c \in Callers : Return(c)
    \/ \E c \in Callers : AwaitRejects(c)
    \/ \E p \in files : ExternalRemove(p)

Spec == Init /\ [][Next]_vars

\* ------------------------------------------------ run lifecycle claims

Run(c) == buildRun[call[c].runId]

Started(c) == call[c].pc # "idle"

\* runOrchestrator has settled: it rejected or returned
Settled(c) == call[c].pc \in {"rejected", "returned"}

StepNamesOf(run) == [i \in 1..Len(run.steps) |-> run.steps[i].name]

AllSteps(run, status) == \A i \in 1..Len(run.steps) : run.steps[i].status = status

\* the artifact paths recorded for a run
RecordedPaths(runId) ==
    {artifact[i].path : i \in {j \in 1..Len(artifact) : artifact[j].runId = runId}}

\* C1: right after runOrchestrator created the run of a plan of length K, the
\* run is `running` and has exactly K steps, named as the plan entries in
\* plan order, all `pending`.
C1_RunCreatedRunningWithPendingSteps ==
    \A c \in Callers :
        call[c].pc = "mkdir" =>
            /\ call[c].runId = Len(buildRun)
            /\ Run(c).status = "running"
            /\ Run(c).buildId = call[c].buildId
            /\ Len(Run(c).steps) = Len(call[c].plan)
            /\ \A i \in 1..Len(call[c].plan) :
                  Run(c).steps[i] = [name |-> call[c].plan[i], status |-> "pending"]

\* a run was just created for a plan of two different entries
C1_Witness ==
    \E c \in Callers :
        /\ call[c].pc = "mkdir"
        /\ Len(call[c].plan) = 2
        /\ call[c].plan[1] # call[c].plan[2]

\* C2 (as claimed): an invocation in which no step failed ends by returning
\* {buildId, runId, manifestPath}, manifestPath being the path of the run's
\* manifest artifact, with the run `ready` and every step `completed`.
C2_SuccessReturnsOutput ==
    \A c \in Callers :
        (Settled(c) /\ call[c].error = NoError) =>
            /\ call[c].pc = "returned"
            /\ Run(c).status = "ready"
            /\ AllSteps(Run(c), "completed")
            /\ call[c].output = [buildId |-> Str(call[c].buildId),
                                 runId |-> call[c].runId,
                                 manifestPath |-> call[c].manifestPath]
            /\ \E i \in 1..Len(artifact) :
                  artifact[i] = [runId |-> call[c].runId, type |-> "manifest",
                                 path |-> call[c].output.manifestPath]

C4_ReadyOnlyWithAllRecordedPathsOnDisk ==
    [][\A r \in 1..Len(buildRun) :
          (buildRun[r].status # "ready" /\ buildRun'[r].status = "ready") =>
              RecordedPaths(r) \subseteq (dirs \cup files)]_vars

TerminalStatus == {"ready", "failed"}

\* C5: the only status values are running, ready and failed; a status changes
\* only from running, and only to ready or failed.
C5_StatusMovesOnlyFromRunningToTerminal ==
    /\ [](\A r \in 1..Len(buildRun) :
             buildRun[r].status \in {"running"} \cup TerminalStatus)
    /\ [][\A r \in 1..Len(buildRun) :
             buildRun'[r].status # buildRun[r].status =>
                 /\ buildRun[r].status = "running"
                 /\ buildRun'[r].status \in TerminalStatus]_vars

\* the orchestrator acted again after the run became ready
C5_Witness ==
    \E c \in Callers : call[c].pc = "rejected" /\ Run(c).status = "ready"

\* C6: a created run always has the steps of its plan: as many as the plan
\* has entries, under the plan's names, in the plan's order.
C6_StepsFixedAtCreation ==
    \A c \in Callers :
        Started(c) => StepNamesOf(Run(c)) = call[c].plan

\* a run of two steps went through the failure path
C6_Witness ==
    \E c \in Callers :
        /\ Len(call[c].plan) = 2
        /\ Run(c).status = "failed"
        /\ AllSteps(Run(c), "failed")

\* ------------------------------------------------------ model responses

\* The text a model call returns (response.output_text) is a sequence of
\* tokens: braces, members of an object (key and value), the literal null,
\* and text that is no JSON
LBrace == [t |-> "{", v |-> <<>>]
RBrace == [t |-> "}", v |-> <<>>]
Junk == [t |-> "junk", v |-> <<>>]
Null == [t |-> "null", v |-> <<>>]
Member(key, value) == [t |-> key, v |-> value]

Punctuation == {"{", "}", "junk", "null"}

\* JSON.parse(text): throws (ok FALSE), or yields null or an object
JsonParse(text) ==
    IF text = <<Null>>
    THEN [ok |-> TRUE, isNull |-> TRUE, members |-> <<>>]
    ELSE IF /\ Len(text) >= 2
            /\ text[1] = LBrace
            /\ text[Len(text)] = RBrace
            /\ \A i \in 2..(Len(text) - 1) : text[i].t \notin Punctuation
    THEN [ok |-> TRUE, isNull |-> FALSE, members |-> SubSeq(text, 2, Len(text) - 1)]
    ELSE [ok |-> FALSE, isNull |-> FALSE, members |-> <<>>]

HasKey(members, key) == \E i \in 1..Len(members) : members[i].t = key

\* the value of object[key]: that of the last member with the key
ValueOf(members, key) ==
    members[CHOOSE i \in 1..Len(members) :
               /\ members[i].t = key
               /\ \A j \in (i + 1)..Len(members) : members[j].t # key].v

\* ------------------------------------------------------ Codegen Engine

\* attempts generateFileWithLLM makes for one target
MaxAttempts == 2

OutputRoot(workspace) == PathJoinAll(workspace, <<"app", "full">>)

\* generateAppCode up to the target loop: the output root and the base files
BaseFileOps(outputRoot) ==
    <<Mkdir(outputRoot),
      Mkdir(outputRoot), WriteFile(PathJoin(outputRoot, "package.json"), TRUE),
      Mkdir(outputRoot), WriteFile(PathJoin(outputRoot, "tsconfig.json"), TRUE),
      Mkdir(outputRoot), WriteFile(PathJoin(outputRoot, "next-env.d.ts"), TRUE)>>

\* generateAppCode(workspace, spec) is called
StartAppCode(workspace, spec) ==
    /\ gen.pc = "idle"
    /\ \E fault \in FaultPoints(BaseFileOps(OutputRoot(workspace))) :
       LET ops == BaseFileOps(OutputRoot(workspace))
           r == RunOps(ops, Disk, fault, 1)
       IN  /\ dirs' = r.dirs
           /\ files' = r.files
           /\ IF r.err = ""
              THEN gen' = [IdleGen EXCEPT
                             !.pc = "call", !.spec = spec,
                             !.outputRoot = OutputRoot(workspace),
                             !.targets = getCodegenTargets(spec),
                             !.i = 1, !.attempt = 1,
                             !.artifacts = ReturnedPaths(ops)]
              ELSE gen' = [IdleGen EXCEPT
                             !.pc = "rejected",
                             !.thrown = [code |-> r.err, at |-> "base"]]
    /\ UNCHANGED <<buildRun, artifact, call, removals, post, fnCall>>

\* generateFileWithLLM(client, spec, target, outputRoot) is called for one
\* target
StartFile(workspace, spec, target) ==
    /\ gen.pc = "idle"
    /\ gen' = [IdleGen EXCEPT
                 !.pc = "call", !.spec = spec,
                 !.outputRoot = OutputRoot(workspace),
                 !.targets = <<target>>, !.i = 1, !.attempt = 1]
    /\ UNCHANGED <<buildRun, artifact, dirs, files, call, removals, post, fnCall>>

Target == gen.targets[gen.i]

\* client.responses.create resolves with a text
ModelReturns(text) ==
    /\ gen.pc = "call"
    /\ gen' = [gen EXCEPT
                 !.pc = "parse",
                 !.response = text,
                 !.calls = Append(@, [attempt |-> gen.attempt,
                                      errorMessage |-> gen.errorMessage,
                                      faulted |-> FALSE,
                                      text |-> text])]
    /\ UNCHANGED <<buildRun, artifact, dirs, files, call, removals, post, fnCall>>

\* ModelFaults with the fault swallowed and the target skipped
ModelFaultSkipsTarget ==
    /\ gen.pc = "call"
    /\ gen' = [gen EXCEPT
                 !.pc = "written",
                 !.calls = Append(@, [attempt |-> gen.attempt,
                                      errorMessage |-> gen.errorMessage,
                                      faulted |-> TRUE,
                                      text |-> <<>>])]
    /\ UNCHANGED <<buildRun, artifact, dirs, files, call, removals, post, fnCall>>

\* client.responses.create rejects
ModelFaults ==
    /\ gen.pc = "call"
    /\ gen' = [gen EXCEPT
                 !.pc = "rejected",
                 !.thrown = [code |-> "ModelFault", at |-> "call"],
                 !.calls = Append(@, [attempt |-> gen.attempt,
                                      errorMessage |-> gen.errorMessage,
                                      faulted |-> TRUE,
                                      text |-> <<>>])]
    /\ UNCHANGED <<buildRun, artifact, dirs, files, call, removals, post, fnCall>>

\* payload.content ?? ""
ContentOf(payload) ==
    IF HasKey(payload.members, "content") THEN ValueOf(payload.members, "content")
    ELSE <<>>

\* Retries with a third attempt allowed
RetriesThrice(validation, attempt) == validation # "" /\ attempt < MaxAttempts + 1

\* the retry decision of generateFileWithLLM
Retries(validation, attempt) == validation # "" /\ attempt < MaxAttempts

\* JSON.parse of the response, validateCode, and the retry decision
ParseAndValidate ==
    /\ gen.pc = "parse"
    /\ LET payload == JsonParse(gen.response)
           content == ContentOf(payload)
           validation == validateCode(content, Extname(Target))
       IN  IF ~payload.ok
           THEN gen' = [gen EXCEPT !.pc = "rejected",
                                   !.thrown = [code |-> "SyntaxError", at |-> "parse"]]
           ELSE IF payload.isNull
           THEN gen' = [gen EXCEPT !.pc = "rejected",
                                   !.thrown = [code |-> "TypeError", at |-> "parse"]]
           ELSE IF Retries(validation, gen.attempt)
           THEN gen' = [gen EXCEPT !.pc = "call",
                                   !.attempt = @ + 1,
                                   !.errorMessage = validation]
           ELSE gen' = [gen EXCEPT !.pc = "write", !.content = content]
    /\ UNCHANGED <<buildRun, artifact, dirs, files, call, removals, post, fnCall>>

\* WrittenContent taking the content of the first attempt
WrittenFirstContent == ContentOf(JsonParse(gen.calls[1].text))

\* the content generateFileWithLLM hands to fs.writeFile
WrittenContent == gen.content

\* WriteLocation taken from the `path` member of the response when it has one
WriteLocationFromModel ==
    LET payload == JsonParse(gen.response)
    IN  IF payload.ok /\ HasKey(payload.members, "path")
        THEN PathJoin(gen.outputRoot, Str(ValueOf(payload.members, "path")))
        ELSE PathJoinAll(gen.outputRoot, Target)

\* const fullPath = path.join(outputRoot, target.path)
WriteLocation == PathJoinAll(gen.outputRoot, Target)

\* fs.mkdir of the target's directory, fs.writeFile of the content
WriteTarget ==
    /\ gen.pc = "write"
    /\ LET fullPath == WriteLocation
           ops == <<Mkdir(Dirname(fullPath)), WriteFile(fullPath, TRUE)>>
       IN  \E fault \in FaultPoints(ops) :
           LET r == RunOps(ops, Disk, fault, 1)
           IN  /\ dirs' = r.dirs
               /\ files' = r.files
               /\ IF r.err = ""
                  THEN gen' = [gen EXCEPT
                                 !.pc = "written",
                                 !.writes = Append(@, [path |-> fullPath,
                                                       content |-> WrittenContent])]
                  ELSE gen' = [gen EXCEPT !.pc = "rejected",
                                          !.thrown = [code |-> r.err, at |-> "write"]]
    /\ UNCHANGED <<buildRun, artifact, call, removals, post, fnCall>>

\* generateFileWithLLM returned: push the path; next target or return
NextTarget ==
    /\ gen.pc = "written"
    /\ gen' = [gen EXCEPT
                 !.artifacts = Append(@, PathJoinAll(gen.outputRoot, Target)),
                 !.pc = IF gen.i < Len(gen.targets) THEN "call" ELSE "returned",
                 !.i = IF gen.i < Len(gen.targets) THEN @ + 1 ELSE @,
                 !.attempt = 1,
                 !.errorMessage = "",
                 !.calls = IF gen.i < Len(gen.targets) THEN <<>> ELSE @,
                 !.writes = IF gen.i < Len(gen.targets) THEN <<>> ELSE @]
    /\ UNCHANGED <<buildRun, artifact, dirs, files, call, removals, post, fnCall>>

\* file contents the model returns
Contents ==
    { <<>>,
      <<"x">>,
      <<"{", "}">>,
      <<"[", "]">>,
      <<"{">>,
      <<"}">>,
      <<"(", "]">>,
      <<"\"", "}", "\"">> }

\* values of the path member of a response
ModelPaths == { <<"a">>, <<".", ".", "/", "b">> }

\* response texts of the file call
FileTexts ==
    {<<LBrace, Member("path", mp), Member("content", ct), RBrace>> :
        mp \in ModelPaths, ct \in Contents}
    \cup { <<LBrace, RBrace>>,
           <<Null>>,
           <<Junk>>,
           <<Junk, LBrace, Member("content", <<"x">>), RBrace, Junk>> }

\* a target with a .json extension, for generateFileWithLLM called alone
JsonTarget == <<"app", "config.json">>

CodegenWorkspace == PathJoin(Generated, "hr-app")

CodegenSpecs == [has : {SpecKeys}, entities : EntityLists, pages : {<<>>}]

InitCodegen ==
    /\ buildRun = <<>>
    /\ artifact = <<>>
    /\ dirs = {}
    /\ files = {}
    /\ call = [c \in Callers |-> IdleCall]
    /\ removals = 0
    /\ gen = IdleGen
    /\ post = IdlePost
    /\ fnCall = NoCall

NextCodegen ==
    \/ \E sp \in CodegenSpecs : StartAppCode(CodegenWorkspace, sp)
    \/ \E sp \in CodegenSpecs, tg \in {JsonTarget, FixedTargets[1]} :
          StartFile(CodegenWorkspace, sp, tg)
    \/ \E text \in FileTexts : ModelReturns(text)
    \/ ModelFaults
    \/ ParseAndValidate
    \/ WriteTarget
    \/ NextTarget

SpecCodegen == InitCodegen /\ [][NextCodegen]_vars

\* ------------------------------------------------ claims: Codegen Engine

\* the model calls made so far for the current target
Calls == gen.calls

HasTarget == gen.i \in 1..Len(gen.targets)

TargetPath == PathJoinAll(gen.outputRoot, Target)

\* the response of call k parsed to an object
Parsed(k) == JsonParse(Calls[k].text).ok /\ ~JsonParse(Calls[k].text).isNull

\* the content of call k, and whether it passes validation for the target
ContentAt(k) == ContentOf(JsonParse(Calls[k].text))

Passes(k) == Parsed(k) /\ validateCode(ContentAt(k), Extname(Target)) = ""

Fails(k) == Parsed(k) /\ validateCode(ContentAt(k), Extname(Target)) # ""

PastAttempts == gen.pc \in {"write", "written", "returned", "rejected"}

\* C7: for one target at most 2 model calls are issued; exactly 1 when the
\* first returned content passes validation, exactly 2 when it fails; when
\* the content fails validation every time, 2 calls are issued and a file is
\* still written at the target path
C7_OneCallIfValidTwoIfNot ==
    /\ Len(Calls) <= 2
    /\ (HasTarget /\ Len(Calls) >= 1 /\ Passes(1)) => Len(Calls) = 1
    /\ (HasTarget /\ Len(Calls) >= 1 /\ Fails(1) /\ PastAttempts) => Len(Calls) = 2
    /\ (/\ HasTarget
        /\ gen.pc \in {"written", "returned"}
        /\ \A k \in 1..Len(Calls) : Fails(k))
       => /\ Len(Calls) = 2
          /\ TargetPath \in files

\* the second call for a .json target has returned content that is no JSON,
\* as the first did, and the file is written
C7_Witness ==
    /\ gen.pc = "written"
    /\ Target = JsonTarget
    /\ Len(Calls) = 2
    /\ Fails(1) /\ Fails(2)
    /\ ContentAt(2) = <<"x">>
    /\ TargetPath \in files

\* the write of a target happens once, after the last attempt, with the
\* content of the last attempt
WritesOnceLastContent ==
    /\ Len(gen.writes) <= 1
    /\ gen.pc \in {"call", "parse", "write"} => gen.writes = <<>>
    /\ (HasTarget /\ gen.pc \in {"written", "returned"})
       => /\ Len(gen.writes) = 1
          /\ gen.writes[1].path = TargetPath
          /\ TargetPath \in files
          /\ gen.writes[1].content = ContentAt(Len(Calls))

\* the calls of the current target returned and no write was refused by the
\* disk, yet the engine rejected
RejectedThoughCallsReturned ==
    /\ gen.pc = "rejected"
    /\ gen.thrown.at = "parse"

\* C8: for each target whose model calls return, the file is written exactly
\* once, after the last attempt, with the content of the last attempt, valid
\* or not, and a failed validation raises no error
C8_WritesLastAttemptOnce ==
    /\ WritesOnceLastContent
    /\ ~RejectedThoughCallsReturned

\* once a call has faulted the engine does nothing more
StaysRejected == gen.pc = "rejected" => gen' = gen /\ files' = files

\* C9: when the model call for a target faults, generateAppCode rejects with
\* that fault, no file is written for that target, no later target is
\* attempted (its file is on disk only if an earlier target has the same
\* path), and the fault is not turned into a skipped target
C9_ModelFaultRejectsAppCode ==
    /\ [](\A k \in 1..Len(Calls) : Calls[k].faulted =>
            /\ gen.pc = "rejected"
            /\ gen.thrown = [code |-> "ModelFault", at |-> "call"]
            /\ k = Len(Calls)
            /\ gen.writes = <<>>
            /\ \A j \in gen.i..Len(gen.targets) :
                  \/ PathJoinAll(gen.outputRoot, gen.targets[j]) \notin files
                  \/ \E h \in 1..(gen.i - 1) : gen.targets[h] = gen.targets[j])
    /\ [][StaysRejected]_vars

\* the call for the third target of the catalog faulted on the retry
C9_Witness ==
    /\ gen.pc = "rejected"
    /\ gen.thrown.code = "ModelFault"
    /\ gen.i = 3
    /\ Len(gen.targets) > 3
    /\ Len(Calls) = 2

\* ---------------------------------------------------------- genie route

\* text.match(/\{[\s\S]*\}/): from the first opening brace to the last
\* closing brace; <<>> when there is no match
BraceSpan(text) ==
    LET opens == {i \in 1..Len(text) : text[i] = LBrace}
        closes == {i \in 1..Len(text) : text[i] = RBrace}
    IN  IF opens = {} \/ closes = {} THEN <<>>
        ELSE LET first == CHOOSE i \in opens : \A j \in opens : i <= j
                 last == CHOOSE i \in closes : \A j \in closes : j <= i
             IN  IF first < last THEN SubSeq(text, first, last) ELSE <<>>

NullPayload == [isNull |-> TRUE, members |-> <<>>]

\* safeJsonParse: the text parsed, else its brace span parsed, else null
safeJsonParse(text) ==
    IF JsonParse(text).ok
    THEN [isNull |-> JsonParse(text).isNull, members |-> JsonParse(text).members]
    ELSE IF BraceSpan(text) = <<>> THEN NullPayload
    ELSE IF JsonParse(BraceSpan(text)).ok
    THEN [isNull |-> FALSE, members |-> JsonParse(BraceSpan(text)).members]
    ELSE NullPayload

\* the plan of buildPlaceholder
PlaceholderPlan ==
    <<"Extract requirements and success metrics",
      "Draft data model and access control matrix",
      "Generate UI layout, API routes, and validations",
      "Write tests, seed data, and CI checks",
      "Deploy preview and run smoke checks">>

buildSpecFallback ==
    [has |-> SpecKeys,
     entities |-> << <<"I","t","e","m">> >>,
     pages |-> << <<"D","a","s","h","b","o","a","r","d">>, <<"I","t","e","m","s">> >>]

\* the object a specification response parsed to, as the Specification the
\* generators read
SpecOf(members) ==
    [has |-> {k \in SpecKeys : HasKey(members, k)},
     entities |-> IF HasKey(members, "entities") THEN ValueOf(members, "entities") ELSE <<>>,
     pages |-> IF HasKey(members, "pages") THEN ValueOf(members, "pages") ELSE <<>>]

\* problem.trim()
RECURSIVE TrimStart(_)
TrimStart(s) == IF s # <<>> /\ Head(s) = " " THEN TrimStart(Tail(s)) ELSE s

RECURSIVE TrimEnd(_)
TrimEnd(s) ==
    IF s # <<>> /\ s[Len(s)] = " " THEN TrimEnd(SubSeq(s, 1, Len(s) - 1)) ELSE s

Trim(s) == TrimEnd(TrimStart(s))

\* the shortest problem statement the route accepts
MinProblem == 10

\* the length summary falls back to: problem.slice(0, 140)
SummaryClip == 140

Slice(s, n) == SubSeq(s, 1, IF Len(s) < n THEN Len(s) ELSE n)

Respond(status, body) ==
    post' = [post EXCEPT !.pc = "responded", !.status = status, !.body = body]

\* POST up to the first model call
PostRequest(apiKey, problem) ==
    /\ post.pc = "idle"
    /\ gen.pc = "idle"
    /\ IF ~apiKey THEN Respond(500, "OPENAI_API_KEY is not set on the server.")
       ELSE IF Len(Trim(problem)) < MinProblem
       THEN Respond(400, "Problem statement is too short.")
       ELSE post' = [post EXCEPT !.pc = "planCall", !.problem = problem]
    /\ UNCHANGED <<buildRun, artifact, dirs, files, call, removals, gen, fnCall>>

\* the plan call resolves: safeJsonParse, the placeholder or the result
PlanReturns(text) ==
    /\ post.pc = "planCall"
    /\ LET parsed == safeJsonParse(text)
       IN  IF parsed.isNull THEN Respond(200, "placeholder")
           ELSE post' = [post EXCEPT
                  !.pc = "specCall",
                  !.planText = text,
                  !.summary = IF HasKey(parsed.members, "summary")
                              THEN ValueOf(parsed.members, "summary")
                              ELSE Slice(post.problem, SummaryClip),
                  !.plan = IF HasKey(parsed.members, "plan")
                           THEN ValueOf(parsed.members, "plan")
                           ELSE PlaceholderPlan]
    /\ UNCHANGED <<buildRun, artifact, dirs, files, call, removals, gen, fnCall>>

\* the specification call resolves: safeJsonParse ?? buildSpecFallback()
SpecReturns(text) ==
    /\ post.pc = "specCall"
    /\ LET parsed == safeJsonParse(text)
       IN  post' = [post EXCEPT
              !.pc = "createBuild",
              !.specText = text,
              !.spec = IF parsed.isNull THEN buildSpecFallback
                       ELSE SpecOf(parsed.members)]
    /\ UNCHANGED <<buildRun, artifact, dirs, files, call, removals, gen, fnCall>>

\* a model call or prisma.build.create rejects: the catch clause answers 500
PostAwaitRejects ==
    /\ post.pc \in {"planCall", "specCall", "createBuild"}
    /\ Respond(500, IF post.pc = "createBuild" THEN "StoreFault" ELSE "ModelFault")
    /\ UNCHANGED <<buildRun, artifact, dirs, files, call, removals, gen, fnCall>>

\* prisma.build.create resolves with the Build row
BuildCreate(buildId) ==
    /\ post.pc = "createBuild"
    /\ post' = [post EXCEPT !.pc = "orchestrate", !.buildId = buildId]
    /\ UNCHANGED <<buildRun, artifact, dirs, files, call, removals, gen, fnCall>>

\* runOrchestrator(build.id, problem, {..., spec}) is called
PostRunOrchestrator(c) ==
    /\ post.pc = "orchestrate"
    /\ CreateRun(c, post.buildId, post.summary, post.plan, post.spec)

\* runOrchestrator rejected: the catch clause answers 500 with the message
\* (runOrchestrator never resolves, see Return)
PostCatch(c) ==
    /\ post.pc = "orchestrate"
    /\ call[c].pc = "rejected"
    /\ Respond(500, call[c].thrown.code)
    /\ UNCHANGED <<buildRun, artifact, dirs, files, call, removals, gen, fnCall>>

Problems ==
    { <<"H","R">>,
      <<" ","H","R"," ","A","p","p"," ","n","o","w"," ">> }

\* response texts of the plan call
PlanTexts ==
    { <<Junk>>,
      <<Null>>,
      <<LBrace>>,
      <<LBrace, RBrace>>,
      <<LBrace, Member("summary", <<"H","R"," ","A","p","p">>),
        Member("plan", <<"a", "b">>), RBrace>>,
      <<Junk, LBrace, Member("plan", <<"a">>), RBrace, Junk>> }

FullSpecMembers ==
    <<Member("entities", << <<"I","t","e","m">> >>),
      Member("workflows", <<>>),
      Member("integrations", <<>>),
      Member("pages", <<>>)>>

\* response texts of the specification call
SpecTexts ==
    { <<Junk>>,
      <<Null>>,
      <<RBrace, LBrace>>,
      <<LBrace, RBrace>>,
      <<LBrace>> \o FullSpecMembers \o <<RBrace>>,
      <<LBrace>> \o SubSeq(FullSpecMembers, 1, 2) \o <<RBrace>>,
      <<Junk, LBrace>> \o FullSpecMembers \o <<RBrace, Junk>> }

\* the route's request, with the run it starts, and the Codegen Engine, one
\* at a time
NextGenie ==
    \/ \E apiKey \in BOOLEAN, problem \in Problems : PostRequest(apiKey, problem)
    \/ \E text \in PlanTexts : PlanReturns(text)
    \/ \E text \in SpecTexts : SpecReturns(text)
    \/ PostAwaitRejects
    \/ \E b \in BuildIds : BuildCreate(b)
    \/ \E c \in Callers : PostRunOrchestrator(c)
    \/ \E c \in Callers : MkdirWorkspace(c)
    \/ \E c \in Callers : WriteManifest(c)
    \/ \E c \in Callers : RecordManifest(c)
    \/ \E c \in Callers : WriteSpec(c)
    \/ \E c \in Callers : RecordSpecReadme(c)
    \/ \E c \in Callers : WriteReadme(c)
    \/ \E c \in Callers : GenerateScaffold(c)
    \/ \E c \in Callers : GenerateAppScaffold(c)
    \/ \E c \in Callers : RecordGenerated(c)
    \/ \E c \in Callers : RecordApp(c)
    \/ \E c \in Callers : ValidateArtifacts(c)
    \/ \E c \in Callers : Verify(c)
    \/ \E c \in Callers : MarkReady(c)
    \/ \E c \in Callers : Catch(c)
    \/ \E c \in Callers : Return(c)
    \/ \E c \in Callers : AwaitRejects(c)
    \/ \E c \in Callers : PostCatch(c)
    \/ post.pc = "idle" /\ NextCodegen

SpecGenie == Init /\ [][NextGenie]_vars

\* ------------------------------------------- claims: response recovery

\* the route answered 500 with the error of a dereference of a key the
\* specification response did not have
RouteAnswers500OnResponse ==
    /\ post.pc = "responded"
    /\ post.status = 500
    /\ post.body = "TypeError"

\* the run of the request failed on such a dereference
RunFailsOnResponse ==
    \E c \in Callers :
        /\ call[c].pc = "rejected"
        /\ call[c].thrown = [code |-> "TypeError", at |-> "generateScaffold"]
        /\ buildRun[call[c].runId].status = "failed"

\* the Codegen Engine rejected on the JSON.parse of a file response
CodegenThrowsOnResponse ==
    /\ gen.pc = "rejected"
    /\ gen.thrown.at = "parse"
    /\ gen.thrown.code \in {"SyntaxError", "TypeError"}

\* C10: a response that is no JSON or lacks required keys is recovered
\* locally: neither the genie route nor the Codegen Engine ends with a thrown
\* error, a failed run or a 500 response caused by the response
C10_ResponsesRecoveredLocally ==
    /\ ~RouteAnswers500OnResponse
    /\ ~RunFailsOnResponse
    /\ ~CodegenThrowsOnResponse

\* the part of C10 on the route alone, and on the Codegen Engine alone
RouteRecoversLocally == ~RouteAnswers500OnResponse /\ ~RunFailsOnResponse

CodegenRecoversLocally == ~CodegenThrowsOnResponse

\* what the route does recover: a plan response that is no JSON is answered
\* with the placeholder, and a specification response that is no JSON is
\* replaced by the fallback specification
UnparsableRecovered ==
    /\ (post.pc = "responded" /\ post.body = "placeholder") => post.status = 200
    /\ (post.pc \notin {"idle", "planCall", "specCall"}
        /\ post.specText # <<>>
        /\ safeJsonParse(post.specText).isNull)
       => post.spec = buildSpecFallback

\* ------------------------------------------------- validateCode, alone

\* longest content handed to validateCode
MaxContent == 4

BracketChars == {"(", ")", "[", "]", "{", "}"}

\* contents without quotes and backslashes
PlainContents == BoundedSeq(BracketChars \cup {"x"}, MaxContent)

\* contents with quotes and backslashes
QuotedContents ==
    BoundedSeq({"\"", "'", Backtick, "\\", "{", "}", "x"}, MaxContent)

CodeExts == {".ts", ".tsx"}

ValidateCalls ==
    [pc : {"called"}, fn : {"validateCode"},
     content : PlainContents \cup QuotedContents,
     ext : CodeExts, result : {""}]

\* validateCode(content, ext) returns
ValidateCodeReturns ==
    /\ fnCall.pc = "called"
    /\ fnCall.fn = "validateCode"
    /\ fnCall' = [fnCall EXCEPT !.pc = "returned",
                                !.result = validateCode(fnCall.content, fnCall.ext)]
    /\ UNCHANGED <<buildRun, artifact, dirs, files, call, removals, gen, post>>

InitValidate ==
    /\ buildRun = <<>>
    /\ artifact = <<>>
    /\ dirs = {}
    /\ files = {}
    /\ call = [c \in Callers |-> IdleCall]
    /\ removals = 0
    /\ gen = IdleGen
    /\ post = IdlePost
    /\ fnCall \in ValidateCalls

NextValidate == ValidateCodeReturns

SpecValidate == InitValidate /\ [][NextValidate]_vars

\* ------------------------------------------------ claims: validateCode

\* reference matcher: a content is balanced when deleting the characters
\* that are no brackets, and then adjacent matching pairs until none is
\* left, leaves nothing
Matches(o, c) == <<o, c>> \in { <<"(", ")">>, <<"[", "]">>, <<"{", "}">> }

Without(s, i) == SubSeq(s, 1, i - 1) \o SubSeq(s, i + 1, Len(s))

First(S) == CHOOSE i \in S : \A j \in S : i <= j

RECURSIVE Reduce(_)
Reduce(s) ==
    LET plain == {i \in 1..Len(s) : s[i] \notin BracketChars}
        pairs == {i \in 1..(Len(s) - 1) : Matches(s[i], s[i + 1])}
    IN  IF plain # {} THEN Reduce(Without(s, First(plain)))
        ELSE IF pairs # {} THEN Reduce(Without(Without(s, First(pairs)), First(pairs)))
        ELSE s

Balanced(s) == Reduce(s) = <<>>

\* the closing brackets of s that do not close the bracket open before them
BadClosers(s) ==
    {i \in 1..Len(s) :
        /\ \E o \in BracketChars : Matches(o, s[i])
        /\ LET open == Reduce(SubSeq(s, 1, i - 1))
           IN  open = <<>> \/ ~Matches(open[Len(open)], s[i])}

\* what the bracket open before position i expects
ExpectedAt(s, i) ==
    LET open == Reduce(SubSeq(s, 1, i - 1))
    IN  IF open = <<>> THEN "none"
        ELSE CHOOSE c \in BracketChars : Matches(open[Len(open)], c)

ValidateReturned == fnCall.pc = "returned" /\ fnCall.fn = "validateCode"

\* C11: on content of brackets and ordinary characters validateCode returns
\* no failure exactly when the brackets are balanced; it names expected and
\* found at the first closing bracket that does not match; it reports
\* unbalanced brackets when the input ends with brackets open
C11_BracketsBalancedOrNamed ==
    (ValidateReturned /\ fnCall.content \in PlainContents) =>
        LET s == fnCall.content
        IN  /\ fnCall.result = "" <=> Balanced(s)
            /\ BadClosers(s) # {} =>
                  fnCall.result =
                     "Mismatched token: expected " \o ExpectedAt(s, First(BadClosers(s)))
                     \o " but found " \o s[First(BadClosers(s))]
            /\ (BadClosers(s) = {} /\ ~Balanced(s)) =>
                  fnCall.result = "Unbalanced brackets detected"

\* a closing bracket met the wrong open bracket
C11_Witness ==
    /\ ValidateReturned
    /\ fnCall.content = <<"{", "(", "x", "]">>
    /\ fnCall.result = "Mismatched token: expected ) but found ]"

\* the message the reference matcher gives for content without quotes and
\* backslashes; "" when balanced
ReferenceMessage(s) ==
    IF BadClosers(s) # {}
    THEN "Mismatched token: expected " \o ExpectedAt(s, First(BadClosers(s)))
         \o " but found " \o s[First(BadClosers(s))]
    ELSE IF Balanced(s) THEN ""
    ELSE "Unbalanced brackets detected"

\* the backslashes that stand right before position i
RECURSIVE BackslashRun(_, _)
BackslashRun(s, i) ==
    IF i > 1 /\ s[i - 1] = "\\" THEN 1 + BackslashRun(s, i - 1) ELSE 0

\* position i holds a character that is neither a backslash nor made inert
\* by one
Active(s, i) == s[i] # "\\" /\ BackslashRun(s, i) % 2 = 0

QuoteChars == {"\"", "'", Backtick}

\* the positions of the quoted spans of s from position i on: a span runs
\* from a quote to the next active occurrence of the same quote, or to the
\* end
RECURSIVE QuotedFrom(_, _)
QuotedFrom(s, i) ==
    LET opens == {j \in i..Len(s) : Active(s, j) /\ s[j] \in QuoteChars}
    IN  IF opens = {} THEN {}
        ELSE LET j == First(opens)
                 closes == {k \in (j + 1)..Len(s) : Active(s, k) /\ s[k] = s[j]}
             IN  IF closes = {} THEN j..Len(s)
                 ELSE (j..First(closes)) \cup QuotedFrom(s, First(closes) + 1)

RECURSIVE Pick(_, _, _)
Pick(s, i, keep) ==
    IF i > Len(s) THEN <<>>
    ELSE (IF i \in keep THEN <<s[i]>> ELSE <<>>) \o Pick(s, i + 1, keep)

\* the characters of s outside quoted spans, backslashes and the characters
\* they make inert left out
Outside(s) ==
    Pick(s, 1, {i \in 1..Len(s) : Active(s, i) /\ i \notin QuotedFrom(s, 1)})

\* C12: brackets inside a single-, double- or backtick-quoted span, closed
\* only by an active occurrence of the same quote, and characters after a
\* backslash, take no part in the bracket check: the result is that of the
\* characters outside
C12_QuotedAndEscapedAreInert ==
    (ValidateReturned /\ fnCall.content \in QuotedContents) =>
        fnCall.result = ReferenceMessage(Outside(fnCall.content))

\* the only unmatched bracket lies inside a quoted span
C12_Witness ==
    /\ ValidateReturned
    /\ fnCall.content = <<"'", "x", "}", "'">>
    /\ fnCall.result = ""

\* ------------------------------------------------ the generators, alone

\* invocations of a generator on the same workspace and Specification
MaxRuns == 2

GeneratorNames == {"generateScaffold", "generateAppScaffold"}

GeneratorOps(fn, workspace, spec) ==
    IF fn = "generateScaffold" THEN generateScaffoldOps(workspace, spec)
    ELSE generateAppScaffoldOps(workspace, spec)

GeneratorEntityLists ==
    BoundedSeq({ <<"I","t","e","m">>, <<"A"," ","B">>,
                 <<"R","e","c","o","r","d","s">>, <<"!">> }, MaxEntities)

GeneratorPageLists ==
    { <<>>,
      << <<"H","o","m","e">> >>,
      << <<"H","o","m","e">>, <<"A"," ","B">> >> }

GeneratorSpecs ==
    [has : {SpecKeys}, entities : GeneratorEntityLists, pages : GeneratorPageLists]

GeneratorWorkspaces == {PathJoin(Generated, "hr-app")}

\* the calls of ops that completed: all, or those before the first that
\* rejected
RECURSIVE Completed(_, _, _, _)
Completed(ops, fs, fault, n) ==
    IF n > Len(ops) \/ n = fault THEN n - 1
    ELSE LET r == ExecOp(fs, ops[n])
         IN  IF r.err # "" THEN n - 1 ELSE Completed(ops, r, fault, n + 1)

\* what a generator hands to fs.writeFile for a path: text computed from the
\* Specification alone
FileContent(fn, path, spec) == [by |-> fn, file |-> path, from |-> spec]

\* WriteOver appending to the file
WriteAppends(old, data) == old \o <<data>>

\* fs.writeFile(path, data, "utf8") on a file holding old: the file holds data
WriteOver(old, data) == <<data>>

\* the file contents after the first k calls of ops
RECURSIVE ContentsAfter(_, _, _, _, _)
ContentsAfter(ops, k, fn, spec, contents) ==
    IF k = 0 THEN contents
    ELSE LET before == ContentsAfter(ops, k - 1, fn, spec, contents)
             o == ops[k]
         IN  IF o.op # "write" THEN before
             ELSE [p \in DOMAIN before \cup {o.path} |->
                     IF p = o.path
                     THEN WriteOver(IF p \in DOMAIN before THEN before[p] ELSE <<>>,
                                    FileContent(fn, p, spec))
                     ELSE before[p]]

NoFirst == [result |-> <<>>, contents |-> <<>>, dirs |-> {}, files |-> {}]

GeneratorCalls ==
    [pc : {"called"}, fn : GeneratorNames, workspace : GeneratorWorkspaces,
     spec : GeneratorSpecs, runs : {0}, result : {<<>>}, err : {""},
     contents : {<<>>}, first : {NoFirst}]

\* the generator runs to its return or to the first call that rejects
GeneratorRuns ==
    /\ fnCall.pc = "called"
    /\ fnCall.fn \in GeneratorNames
    /\ LET ops == GeneratorOps(fnCall.fn, fnCall.workspace, fnCall.spec)
       IN  \E fault \in FaultPoints(ops) :
           LET r == RunOps(ops, Disk, fault, 1)
               contents == ContentsAfter(ops, Completed(ops, Disk, fault, 1),
                                         fnCall.fn, fnCall.spec, fnCall.contents)
           IN  /\ dirs' = r.dirs
               /\ files' = r.files
               /\ IF r.err = ""
                  THEN fnCall' = [fnCall EXCEPT
                         !.pc = "returned",
                         !.runs = @ + 1,
                         !.result = ReturnedPaths(ops),
                         !.contents = contents,
                         !.first = IF fnCall.runs = 0
                                   THEN [result |-> ReturnedPaths(ops),
                                         contents |-> contents,
                                         dirs |-> r.dirs, files |-> r.files]
                                   ELSE @]
                  ELSE fnCall' = [fnCall EXCEPT
                         !.pc = "rejected", !.err = r.err, !.contents = contents]
    /\ UNCHANGED <<buildRun, artifact, call, removals, gen, post>>

\* the generator is invoked again with the same arguments
GeneratorCalledAgain ==
    /\ fnCall.pc = "returned"
    /\ fnCall.fn \in GeneratorNames
    /\ fnCall.runs < MaxRuns
    /\ fnCall' = [fnCall EXCEPT !.pc = "called"]
    /\ UNCHANGED <<buildRun, artifact, dirs, files, call, removals, gen, post>>

InitGenerators ==
    /\ buildRun = <<>>
    /\ artifact = <<>>
    /\ dirs \in InitialDirs
    /\ files = {}
    /\ call = [c \in Callers |-> IdleCall]
    /\ removals = 0
    /\ gen = IdleGen
    /\ post = IdlePost
    /\ fnCall \in GeneratorCalls

NextGenerators ==
    \/ GeneratorRuns
    \/ GeneratorCalledAgain

SpecGenerators == InitGenerators /\ [][NextGenerators]_vars

\* ---------------------------------------------- claims: the generators

AppScaffoldReturned ==
    /\ fnCall.pc = "returned"
    /\ fnCall.fn = "generateAppScaffold"

\* the paths generateAppScaffold returns for a Specification without
\* entities: spec.json, ui-map.md, the page files, the fixed template files
CountWithoutEntities(spec) == 2 + Len(Routes(spec)) + Len(FixedTemplateFiles)

\* C13 as stated: generateAppScaffold returns the fixed doc/schema paths, the
\* fixed template paths and 2 paths for each entity
C13_TwoPathsPerEntity ==
    AppScaffoldReturned =>
        Len(fnCall.result) =
            CountWithoutEntities(fnCall.spec) + 2 * Len(fnCall.spec.entities)

\* C13 amended: generateAppScaffold returns 4 paths for each entity (its
\* schema file, its list route, its detail route and its page) on top of
\* the paths it returns for a Specification without entities
C13_FourPathsPerEntity ==
    AppScaffoldReturned =>
        Len(fnCall.result) =
            CountWithoutEntities(fnCall.spec) + 4 * Len(fnCall.spec.entities)

\* the generator returned for a Specification with an entity
C13_Witness ==
    /\ AppScaffoldReturned
    /\ Len(fnCall.spec.entities) = MaxEntities
    /\ Len(fnCall.result) = CountWithoutEntities(fnCall.spec) + 4 * MaxEntities

\* the top-level docs generateAppScaffold writes below the workspace
TopLevelDocs(workspace, spec) ==
    LET appRoot == PathJoin(workspace, "app")
    IN  {PathJoin(appRoot, "README.md"),
         PathJoin(appRoot, "spec.json"),
         PathJoin(appRoot, "ui-map.md")}
        \cup {PathJoinAll(appRoot, <<"pages", Str(slugify(Routes(spec)[i])) \o ".md">>) :
                 i \in 1..Len(Routes(spec))}

\* every path generateAppScaffold returned is a file on disk
ReturnedPathsExist ==
    AppScaffoldReturned => Range(fnCall.result) \subseteq files

\* C14: when generateAppScaffold returns, every returned path exists on
\* disk, and every top-level doc it wrote (app/README.md, app/spec.json,
\* app/ui-map.md, the page files) is in the returned list
C14_ReturnedExistAndDocsReturned ==
    AppScaffoldReturned =>
        /\ Range(fnCall.result) \subseteq files
        /\ TopLevelDocs(fnCall.workspace, fnCall.spec) \subseteq files
        /\ TopLevelDocs(fnCall.workspace, fnCall.spec) \subseteq Range(fnCall.result)

\* the page files of a returned list: what follows app/spec.json and
\* app/ui-map.md, one path per page
PagePathsOf(result, n) == SubSeq(result, 3, 2 + n)

PageFile(workspace, name) ==
    PathJoinAll(workspace, <<"app", "pages", name \o ".md">>)

\* the files below app/pages
PageFilesOnDisk(workspace) ==
    {p \in files : Len(p) = Len(workspace) + 3
                   /\ SubSeq(p, 1, Len(workspace) + 2)
                        = PathJoinAll(workspace, <<"app", "pages">>)}

\* C15: with an empty pages sequence generateAppScaffold writes and returns
\* exactly the two default page files, dashboard.md and items.md; with a
\* non-empty one it writes and returns one page file per page, in
\* Specification order, and no default
C15_DefaultPagesOnlyWhenNoPages ==
    AppScaffoldReturned =>
        LET ws == fnCall.workspace
            pages == fnCall.spec.pages
            own == [i \in 1..Len(pages) |-> PageFile(ws, Str(slugify(pages[i])))]
            defaults == <<PageFile(ws, "dashboard"), PageFile(ws, "items")>>
        IN  IF pages = <<>>
            THEN /\ PagePathsOf(fnCall.result, 2) = defaults
                 /\ PageFilesOnDisk(ws) = Range(defaults)
                 /\ \A p \in Range(defaults) : Len(SelectSeq(fnCall.result, LAMBDA q : q = p)) = 1
            ELSE /\ PagePathsOf(fnCall.result, Len(pages)) = own
                 /\ PageFilesOnDisk(ws) = Range(own)
                 /\ \A p \in Range(defaults) \ Range(own) : p \notin Range(fnCall.result)

\* the Specification had no pages and the two defaults were returned
C15_Witness ==
    /\ AppScaffoldReturned
    /\ fnCall.spec.pages = <<>>
    /\ PagePathsOf(fnCall.result, 2)
         = <<PageFile(fnCall.workspace, "dashboard"), PageFile(fnCall.workspace, "items")>>
    /\ PageFile(fnCall.workspace, "items") \in files

\* ------------------------------------------- the naming functions, alone

\* longest string handed to a naming function
MaxName == 4

NamingChars == {"A", "b", "1", "-", " ", "_"}

NameInputs == BoundedSeq(NamingChars, MaxName)

NamingFunctions == {"slugify", "safeName", "normalizeName"}

ApplyNaming(fn, value) ==
    CASE fn = "slugify" -> slugify(value)
      [] fn = "safeName" -> safeName(value)
      [] OTHER -> normalizeName(value)

NamingCalls ==
    [pc : {"called"}, fn : NamingFunctions, value : NameInputs,
     result : {<<>>}, again : {<<>>}]

\* the function returns
NamingReturns ==
    /\ fnCall.pc = "called"
    /\ fnCall.fn \in NamingFunctions
    /\ fnCall' = [fnCall EXCEPT !.pc = "returned",
                                !.result = ApplyNaming(fnCall.fn, fnCall.value)]
    /\ UNCHANGED <<buildRun, artifact, dirs, files, call, removals, gen, post>>

\* the function is applied to its own result
NamingReturnsAgain ==
    /\ fnCall.pc = "returned"
    /\ fnCall.fn \in NamingFunctions
    /\ fnCall' = [fnCall EXCEPT !.pc = "returnedAgain",
                                !.again = ApplyNaming(fnCall.fn, fnCall.result)]
    /\ UNCHANGED <<buildRun, artifact, dirs, files, call, removals, gen, post>>

InitNaming ==
    /\ buildRun = <<>>
    /\ artifact = <<>>
    /\ dirs = {}
    /\ files = {}
    /\ call = [c \in Callers |-> IdleCall]
    /\ removals = 0
    /\ gen = IdleGen
    /\ post = IdlePost
    /\ fnCall \in NamingCalls

NextNaming ==
    \/ NamingReturns
    \/ NamingReturnsAgain

SpecNaming == InitNaming /\ [][NextNaming]_vars

\* ------------------------------------------ claims: the naming functions

\* the slug written position by position: each character of [a-z0-9] of
\* the lowercased input, with one "-" before it when the character before
\* it is outside [a-z0-9] and some character of [a-z0-9] precedes
ReferenceSlug(value) ==
    LET low == ToLowerCase(value)
    IN  Flatten([i \in 1..Len(low) |->
           IF low[i] \notin LowerAlnum THEN <<>>
           ELSE IF /\ i > 1
                   /\ low[i - 1] \notin LowerAlnum
                   /\ \E j \in 1..(i - 1) : low[j] \in LowerAlnum
           THEN <<"-", low[i]>>
           ELSE <<low[i]>>])

NamingReturned ==
    /\ fnCall.pc \in {"returned", "returnedAgain"}
    /\ fnCall.fn \in NamingFunctions

\* C16: slugify, safeName and normalizeName return the lowercased input with
\* each maximal run of characters outside [a-z0-9] replaced by one "-",
\* without "-" at the start or the end and without two adjacent "-"; the
\* result is over [a-z0-9-], is empty for an input without a character of
\* [a-z0-9], is a fixed point of the function, and is the same for the
\* three functions
C16_SlugShapeIdempotentAndCopiesAgree ==
    NamingReturned =>
        LET r == fnCall.result
        IN  /\ r = ReferenceSlug(fnCall.value)
            /\ \A i \in 1..Len(r) : r[i] \in LowerAlnum \cup {"-"}
            /\ r # <<>> => r[1] # "-" /\ r[Len(r)] # "-"
            /\ \A i \in 1..(Len(r) - 1) : ~(r[i] = "-" /\ r[i + 1] = "-")
            /\ (\A i \in 1..Len(fnCall.value) :
                   ToLowerChar(fnCall.value[i]) \notin LowerAlnum) => r = <<>>
            /\ fnCall.pc = "returnedAgain" => fnCall.again = r
            /\ r = slugify(fnCall.value)
            /\ r = safeName(fnCall.value)
            /\ r = normalizeName(fnCall.value)

\* a name with runs of other characters inside and at both ends
C16_Witness ==
    /\ fnCall.pc = "returnedAgain"
    /\ fnCall.fn = "safeName"
    /\ fnCall.value = <<" ", "A", "_", "-">>
    /\ fnCall.result = <<"a">>
    /\ fnCall.again = <<"a">>

\* ------------------------------------------------ claims: the workspace

HasAlnum(s) == \E i \in 1..Len(s) : ToLowerChar(s[i]) \in LowerAlnum

\* C17: the workspace folder of a run is named by the slug of the build
\* summary when the summary has a character of [a-z0-9] after lowercasing,
\* by the build id when it has none or is empty; the name is never empty
C17_WorkspaceIsSlugOrBuildId ==
    \A c \in Callers :
        Started(c) =>
            /\ Len(call[c].workspace) = 2
            /\ call[c].workspace[1] = "generated"
            /\ call[c].workspace[2] # ""
            /\ call[c].workspace[2] =
                  IF HasAlnum(call[c].summary)
                  THEN Str(ReferenceSlug(call[c].summary))
                  ELSE Str(call[c].buildId)

\* a run whose summary is empty works in the folder of its build id
C17_Witness ==
    \E c \in Callers :
        /\ Started(c)
        /\ call[c].summary = <<>>
        /\ call[c].workspace = <<"generated", "b1">>
        /\ <<"generated", "b1">> \in dirs

\* --------------------------------------------- claims: repeated runs

GeneratorReturnedAgain ==
    /\ fnCall.pc = "returned"
    /\ fnCall.fn \in GeneratorNames
    /\ fnCall.runs >= 2

C19_CheckCoversRecordedPaths ==
    \A c \in Callers :
        call[c].pc = "validateArtifacts" =>
            /\ RecordedPaths(call[c].runId) \subseteq Range(ValidatedPaths(c))
            /\ ~(RecordedPaths(call[c].runId) \subseteq (dirs \cup files))
                  => Missing(ValidatedPaths(c), dirs, files) # <<>>

\* the paths handed to validateArtifacts are recorded paths
CheckedPathsAreRecorded ==
    \A c \in Callers :
        call[c].pc = "validateArtifacts" =>
            Range(ValidatedPaths(c)) \subseteq RecordedPaths(call[c].runId)

\* ------------------------------------------- claims: steps and the run

StepStatusOf(status) ==
    CASE status = "running" -> "pending"
      [] status = "ready" -> "completed"
      [] OTHER -> "failed"

StepsFollow(run) ==
    \A i \in 1..Len(run.steps) : run.steps[i].status = StepStatusOf(run.status)

\* C20: in every state the steps of a run all have the status that goes
\* with the run's: pending with running, completed with ready, failed with
\* failed; the run and its steps change in one update
C20_StepsFollowRunStatus ==
    /\ [](\A r \in 1..Len(buildRun) :
            /\ buildRun[r].status \in {"running", "ready", "failed"}
            /\ StepsFollow(buildRun[r]))
    /\ [][\A r \in 1..Len(buildRun) :
            buildRun'[r].status # buildRun[r].status =>
                \A i \in 1..Len(buildRun[r].steps) :
                    /\ buildRun[r].steps[i].status = "pending"
                    /\ buildRun'[r].steps[i].status # "pending"]_vars

\* a run with two steps became ready and both steps are completed
C20_Witness ==
    \E r \in 1..Len(buildRun) :
        /\ buildRun[r].status = "ready"
        /\ Len(buildRun[r].steps) = 2
        /\ \A i \in 1..2 : buildRun[r].steps[i].status = "completed"

\* ------------------------------------------ claims: order within a run

\* the artifact paths of a type recorded for a run
RecordedOfType(runId, type) ==
    {artifact[i].path :
        i \in {j \in 1..Len(artifact) :
                  artifact[j].runId = runId /\ artifact[j].type = type}}

\* where the invocation stands, or stood when the try block was left
Position(c) ==
    IF call[c].pc \in {"catch", "rejected"} /\ call[c].error.at # ""
    THEN call[c].error.at
    ELSE IF call[c].pc = "rejected" THEN "return"
    ELSE call[c].pc

\* the positions at or after the call of the Template App Generator
FromAppScaffoldOn ==
    {"generateAppScaffold", "recordGenerated", "recordApp",
     "validateArtifacts", "verify", "markReady", "return"}

FromExistenceCheckOn == {"validateArtifacts", "verify", "markReady", "return"}

\* the manifest, spec and app artifacts are recorded where the claimed
\* order has them recorded
RecordsInClaimedOrderButGenerated ==
    \A c \in Callers :
        /\ Position(c) \in FromAppScaffoldOn =>
              /\ RecordedOfType(call[c].runId, "manifest") # {}
              /\ RecordedOfType(call[c].runId, "spec") # {}
              /\ RecordedOfType(call[c].runId, "readme") # {}
        /\ Position(c) \in FromExistenceCheckOn =>
              /\ RecordedOfType(call[c].runId, "app") = Range(call[c].appArtifacts)
              /\ call[c].appArtifacts # <<>>

\* C21: the actions of a run happen in the order directories, manifest, spec
\* and readme, Static Scaffold Generator with its `generated` records,
\* Template App Generator with its `app` records, existence check,
\* verification, status update; the `generated` artifacts are recorded
\* before the Template App Generator runs and stay recorded when it fails
C21_GeneratedRecordedBeforeAppScaffold ==
    /\ RecordsInClaimedOrderButGenerated
    /\ \A c \in Callers :
          Position(c) \in FromAppScaffoldOn =>
              /\ call[c].generatedArtifacts # <<>>
              /\ RecordedOfType(call[c].runId, "generated")
                    = Range(call[c].generatedArtifacts)

\* -------------------------------- claims: directories before the writes

\* the write number k of ops has its parent directory created by an earlier
\* mkdir of ops
ParentMadeBefore(ops, k) ==
    \E j \in 1..(k - 1) :
        /\ ops[j].op = "mkdir"
        /\ Dirname(ops[k].path) \in Ancestors(ops[j].path)

\* generateAppScaffold has returned or rejected
AppScaffoldCalled ==
    /\ fnCall.pc \in {"returned", "rejected"}
    /\ fnCall.fn = "generateAppScaffold"

\* every per-entity write has its parent directory created before it
EntityWritesHaveParents ==
    AppScaffoldCalled =>
        \A i \in 1..Len(fnCall.spec.entities) :
            LET ops == EntityOps(PathJoinAll(fnCall.workspace, <<"app", "template">>),
                                 fnCall.spec.entities[i])
            IN  \A k \in 1..Len(ops) : ops[k].op = "write" => ParentMadeBefore(ops, k)

\* C22: in a call of generateAppScaffold a mkdir of the parent directory
\* precedes every write, those of api/workflows/route.ts and
\* api/integrations/route.ts included, so that no write fails for a missing
\* parent directory
C22_MkdirPrecedesEveryWrite ==
    AppScaffoldCalled =>
        LET ops == generateAppScaffoldOps(fnCall.workspace, fnCall.spec)
        IN  /\ \A k \in 1..Len(ops) : ops[k].op = "write" => ParentMadeBefore(ops, k)
            /\ fnCall.pc = "rejected" => fnCall.err # "ENOENT"

\* --------------------------------------------------- two invocations

\* two requests in flight, each calling runOrchestrator once
TwoCallers == {"c1", "c2"}

TwoRunSummaries == { <<"H","R"," ","A","p","p">>, <<"!","?">> }

TwoRunSpec ==
    [has |-> SpecKeys, entities |-> << <<"I","t","e","m">> >>, pages |-> <<>>]

InitTwoRuns ==
    /\ buildRun = <<>>
    /\ artifact = <<>>
    /\ dirs \in { {}, PreparedDirs(<<"h","r","-","a","p","p">>) }
    /\ files = {}
    /\ call = [c \in TwoCallers |-> IdleCall]
    /\ removals = 0
    /\ gen = IdleGen
    /\ post = IdlePost
    /\ fnCall = NoCall

NextTwoRuns ==
    \/ \E c \in TwoCallers, b \in BuildIds, s \in TwoRunSummaries :
          CreateRun(c, b, s, <<"a">>, TwoRunSpec)
    \/ \E c \in TwoCallers : MkdirWorkspace(c)
    \/ \E c \in TwoCallers : WriteManifest(c)
    \/ \E c \in TwoCallers : RecordManifest(c)
    \/ \E c \in TwoCallers : WriteSpec(c)
    \/ \E c \in TwoCallers : RecordSpecReadme(c)
    \/ \E c \in TwoCallers : WriteReadme(c)
    \/ \E c \in TwoCallers : GenerateScaffold(c)
    \/ \E c \in TwoCallers : GenerateAppScaffold(c)
    \/ \E c \in TwoCallers : RecordGenerated(c)
    \/ \E c \in TwoCallers : RecordApp(c)
    \/ \E c \in TwoCallers : ValidateArtifacts(c)
    \/ \E c \in TwoCallers : Verify(c)
    \/ \E c \in TwoCallers : MarkReady(c)
    \/ \E c \in TwoCallers : Catch(c)
    \/ \E c \in TwoCallers : Return(c)

SpecTwoRuns == InitTwoRuns /\ [][NextTwoRuns]_vars


\* the artifact rows of two different runs name different files
RunsRecordDifferentFiles ==
    \A r1, r2 \in 1..Len(buildRun) :
        r1 # r2 => RecordedPaths(r1) \cap RecordedPaths(r2) = {}

\* C23: any two runs, of the same build or of different builds, sequential
\* or interleaved, have different workspace directories, and so never record
\* the same file.
C23_ExclusiveWorkspace ==
    /\ \A c1, c2 \in DOMAIN call :
          (c1 # c2 /\ Started(c1) /\ Started(c2))
             => call[c1].workspace # call[c2].workspace
    /\ RunsRecordDifferentFiles


\* every file the verification script expects is in the workspace of c
OwnWorkspaceComplete(c) ==
    \A rel \in VerifyExpected : call[c].workspace \o rel \in dirs \cup files

\* the verification command of c has just finished
VerifyDone(c) == call[c].pc = "verify" /\ call'[c].pc # "verify"

\* C24: with several workspace directories under generated/, the outcome of
\* the verification command depends only on the workspace of the run that
\* invokes it: it fails exactly when an expected file is missing there.
C24_VerifyChecksOwnWorkspace ==
    [][\A c \in Callers :
          VerifyDone(c) => (call'[c].pc = "markReady" <=> OwnWorkspaceComplete(c))]_vars

\* what the command does check: the workspace whose name sorts last
VerifyChecksLatestWorkspace ==
    [][\A c \in Callers :
          VerifyDone(c) =>
             (call'[c].pc = "markReady" <=>
                \A rel \in VerifyExpected : Latest(dirs) \o rel \in dirs \cup files)]_vars


\* ---------------------------------------------- runs without faults

\* no I/O fault was injected into the step c has just taken
NoFault(c) == call'[c].error.code # "EIO"

\* the steps of runOrchestrator once the run exists, every awaited call
\* succeeding whenever its target's parent directory exists
RunStepsNoFaults ==
    \/ \E c \in Callers : MkdirWorkspace(c) /\ NoFault(c)
    \/ \E c \in Callers : WriteManifest(c) /\ NoFault(c)
    \/ \E c \in Callers : RecordManifest(c)
    \/ \E c \in Callers : WriteSpec(c) /\ NoFault(c)
    \/ \E c \in Callers : RecordSpecReadme(c)
    \/ \E c \in Callers : WriteReadme(c) /\ NoFault(c)
    \/ \E c \in Callers : GenerateScaffold(c) /\ NoFault(c)
    \/ \E c \in Callers : GenerateAppScaffold(c) /\ NoFault(c)
    \/ \E c \in Callers : RecordGenerated(c)
    \/ \E c \in Callers : RecordApp(c)
    \/ \E c \in Callers : ValidateArtifacts(c)
    \/ \E c \in Callers : Verify(c)
    \/ \E c \in Callers : MarkReady(c)
    \/ \E c \in Callers : Catch(c)
    \/ \E c \in Callers : Return(c)

NextNoFaults ==
    \/ \E c \in Callers, b \in BuildIds, s \in Summaries, pl \in Plans,
          sp \in WellFormedSpecs : CreateRun(c, b, s, pl, sp)
    \/ RunStepsNoFaults

\* every await of a started run settles, so the run keeps taking steps
SpecNoFaults == Init /\ [][NextNoFaults]_vars /\ WF_vars(RunStepsNoFaults)

\* c has created its run on an empty disk for a Specification with entities
StartedOnEmptyWorkspace(c) ==
    /\ call[c].pc = "mkdir"
    /\ dirs = {}
    /\ files = {}
    /\ Len(call[c].spec.entities) >= 1

\* C25: without faults, a run started on an initially empty workspace for a
\* well-formed Specification with at least one entity eventually is `ready`
\* with all its steps `completed`.
C25_EmptyWorkspaceRunBecomesReady ==
    \A c \in Callers :
        StartedOnEmptyWorkspace(c)
           ~> (/\ Started(c)
               /\ Run(c).status = "ready"
               /\ AllSteps(Run(c), "completed"))

\* what happens instead: the run ends `failed` on the missing directory
EmptyWorkspaceRunFails ==
    \A c \in Callers :
        StartedOnEmptyWorkspace(c)
           ~> (/\ Started(c)
               /\ Run(c).status = "failed"
               /\ call[c].thrown.code = "ENOENT")


\* ------------------------------------------- failing status updates

\* prisma.buildRun.update of the try block rejects: nothing is stored and
\* the catch clause takes over
MarkReadyRejects(c) ==
    /\ call[c].pc = "markReady"
    /\ Reject(c, "StoreError")
    /\ UNCHANGED <<buildRun, artifact, dirs, files, removals, gen, post, fnCall>>

\* prisma.buildRun.update of the catch clause rejects: nothing is stored, the
\* await throws inside the catch clause and `throw error` is not reached
CatchUpdateRejects(c) ==
    /\ call[c].pc = "catch"
    /\ call' = [call EXCEPT ![c].pc = "rejected",
                            ![c].thrown = [code |-> "StoreError", at |-> "catch"]]
    /\ UNCHANGED <<buildRun, artifact, dirs, files, removals, gen, post, fnCall>>

NextStoreFaults ==
    \/ Next
    \/ \E c \in Callers : MarkReadyRejects(c)
    \/ \E c \in Callers : CatchUpdateRejects(c)

SpecStoreFaults == Init /\ [][NextStoreFaults]_vars

\* C26: once runOrchestrator has returned or rejected for a run it created,
\* the run is no longer `running` and no step is `pending`, even when
\* persistence calls fail; a failing status update in the failure handler
\* does not replace the error the caller sees.
C26_SettledRunIsNotRunning ==
    \A c \in Callers :
        Settled(c) =>
            /\ Run(c).status # "running"
            /\ ~AllSteps(Run(c), "pending") \/ Run(c).steps = <<>>
            /\ call[c].error # NoError => call[c].thrown = call[c].error

\* with a store that fails, a settled run is `running` only after the
\* update of the catch clause failed
RunningOnlyAfterCatchUpdateFailed ==
    \A c \in Callers :
        (Settled(c) /\ Run(c).status = "running")
            => call[c].thrown = [code |-> "StoreError", at |-> "catch"]


\* the paths the per-entity loop of generateAppScaffold writes for fnCall
EntityPathsOf(i) ==
    LET templateDir == PathJoinAll(fnCall.workspace, <<"app", "template">>)
    IN  {o.path : o \in {e \in Range(EntityOps(templateDir, fnCall.spec.entities[i])) :
                           e.op = "write"}}

FixedTemplatePaths ==
    LET templateDir == PathJoinAll(fnCall.workspace, <<"app", "template">>)
    IN  {PathJoinAll(templateDir, FixedTemplateFiles[i]) :
            i \in 1..Len(FixedTemplateFiles)}

NoDuplicates(s) == \A i, j \in 1..Len(s) : i # j => s[i] # s[j]

\* C27: the paths written for an entity are none of the fixed template paths
\* and none of another entity's paths, so the list generateAppScaffold
\* returns has no duplicate path.
C27_EntityPathsDisjoint ==
    AppScaffoldReturned =>
        /\ \A i \in 1..Len(fnCall.spec.entities) :
              EntityPathsOf(i) \cap FixedTemplatePaths = {}
        /\ \A i, j \in 1..Len(fnCall.spec.entities) :
              i # j => EntityPathsOf(i) \cap EntityPathsOf(j) = {}
        /\ NoDuplicates(fnCall.result)

\* what does hold: an entity whose slug is none of the fixed section names
\* and not empty has paths of its own
FixedSlugs == {"records", "entities", "workflows", "integrations", ""}

OtherSlugsHaveOwnPaths ==
    AppScaffoldReturned =>
        \A i \in 1..Len(fnCall.spec.entities) :
            Str(slugify(fnCall.spec.entities[i])) \notin FixedSlugs
                => EntityPathsOf(i) \cap FixedTemplatePaths = {}


\* the `path` member of the last response, <<>> when it has none
ModelPath ==
    LET payload == JsonParse(Calls[Len(Calls)].text)
    IN  IF payload.ok /\ HasKey(payload.members, "path")
        THEN ValueOf(payload.members, "path")
        ELSE <<>>

\* C28: the `path` member of a model response has no influence on what the
\* Codegen Engine writes: whatever the member holds, the write of a target
\* adds no file but outputRoot joined with the target's own path, no
\* directory outside that file's ancestors, and the file holds the content
\* member of the response.
C28_ModelPathIgnored ==
    /\ []((HasTarget /\ gen.pc = "written")
            => /\ gen.writes[1].path = TargetPath
               /\ gen.writes[1].content = ContentAt(Len(Calls))
               /\ TargetPath \in files)
    /\ [][gen.pc = "write"
            => /\ files' \ files \subseteq {TargetPath}
               /\ dirs' \ dirs \subseteq Ancestors(Dirname(TargetPath))]_vars

C28_Witness ==
    /\ gen.pc = "written"
    /\ HasTarget
    /\ ModelPath = <<".", ".", "/", "b">>
    /\ gen.writes[1].path = TargetPath
    /\ TargetPath \in files
    /\ PathJoin(gen.outputRoot, "../b") \notin files


\* --------------------------------------- claims: records and writes

\* the artifact rows a step appends
Appended == {artifact'[i] : i \in (Len(artifact) + 1)..Len(artifact')}

\* C29: an artifact record is appended only after its file was written: the
\* path of every record a step appends is a file on disk before the step,
\* in runs that end `failed` too.
C29_RecordedAfterWritten ==
    [][\A row \in Appended : row.path \in files]_vars

\* the records of every type but `readme` are appended after the write
RecordedAfterWrittenButReadme ==
    [][\A row \in Appended : row.type # "readme" => row.path \in files]_vars


\* the artifact rows of run r, in order
RowsOf(r) == SelectSeq(artifact, LAMBDA row : row.runId = r)

PathsOfRows(rows) == [i \in 1..Len(rows) |-> rows[i].path]

\* C30: in one run the Static Scaffold Generator and the Template App
\* Generator return disjoint sets of paths, so no file is written by both
\* and no path is in two artifact records of the run.
C30_GeneratorsOwnTheirFiles ==
    \A c \in Callers :
        Started(c) =>
            /\ Range(call[c].generatedArtifacts) \cap Range(call[c].appArtifacts) = {}
            /\ NoDuplicates(PathsOfRows(RowsOf(call[c].runId)))

\* the one path both generators return
SharedOnlyUiMap ==
    \A c \in Callers :
        Started(c) =>
            Range(call[c].generatedArtifacts) \cap Range(call[c].appArtifacts)
                \subseteq {PathJoinAll(call[c].workspace, <<"app", "ui-map.md">>)}

====
